---- MODULE Spec2Model ----
(***************************************************************************)
(* Protocol core of the Nortek instrument driver                           *)
(* (src/mi/instrument/nortek/driver.py): the parameter registry            *)
(* (NortekProtocolParameterDict), the protocol state machine of            *)
(* NortekInstrumentProtocol with its event handlers, the what-mode probe,  *)
(* the user-configuration read and the scheduled jobs.                     *)
(*                                                                         *)
(* One action models one event handled by the protocol state machine,      *)
(* from the dispatch of the event to the return (or the exception) of      *)
(* on_event, the exit and enter handlers of a state change included.  The  *)
(* instrument and the transport are the environment: what the instrument   *)
(* answers to each exchange is chosen with \E.                             *)
(***************************************************************************)
EXTENDS Integers, Sequences, FiniteSets, TLC

VARIABLES
    state,      \* _protocol_fsm current state
    param_dict, \* _param_dict: parameter name -> current value
    promptbuf,  \* _promptbuf: response bytes accumulated by the last exchange
    armed,      \* scheduled jobs registered with the scheduler: job -> event
    instr,      \* mode of the attached instrument (environment)
    handler,    \* the handler the last event was dispatched to ("none":
                \* the state had no handler for the event)
    source,     \* who delivered the event: "caller" or "scheduler"
    outcome,    \* how on_event ended: "ok" or the exception raised
    wire,       \* what the last event wrote to the transport, in order
    staging,    \* the last set_from_value call of the last Set
    probe,      \* the prompt buffer as _get_mode left it in the last event
    pre,        \* state, registry, instrument mode and jobs at dispatch
    notified,   \* the last event sent DriverAsyncEvent.CONFIG_CHANGE
    codec,      \* the registry of the fields of the block, on bytes, and
                \* what the last call of the codec did with it
    session,    \* who is inside on_event and at which exchange, the events
                \* of fired jobs that wait, what is on the transport
    chunker,    \* the bytes the chunker holds, the list of the registered
                \* responses, and the ranges the sieve returned last
    waited,     \* the bounded wait the last event ran last: which loop, the
                \* time it took, its timeout and how it ended
    result,     \* what the last event was asked for and returned as its
                \* result, for _handler_get
    whatmode    \* the last call of _get_mode: what the instrument replied
                \* to the probes, and what the call returned

vars == <<state, param_dict, promptbuf, armed, instr, handler, source,
          outcome, wire, staging, probe, pre, notified, waited, result,
          whatmode, codec, session, chunker>>

\* the variables of the protocol
protocol_vars == <<state, param_dict, promptbuf, armed, instr, handler,
                   source, outcome, wire, staging, probe, pre, notified,
                   waited, result, whatmode>>

----------------------------------------------------------------------------
(* Bounds of the model.                                                    *)

\* longest Set batch (number of name/value pairs)
MaxBatch == 2
\* most what-mode probes sent before the probe timeout has elapsed
MaxProbes == 2
\* most user-configuration reads sent before the read timeout has elapsed
MaxReads == 2
\* most calls of the codec in a row
MaxCalls == 3
\* most responses registered with the chunker and not found yet
MaxRegistered == 2
\* distance of the offsets at which a long stream is cut into deliveries
CutStep == 16
\* longest buffer a conversion of the codec is given
MaxBufferLen == 7
\* most bytes by which a comment or a deployment name held by the registry
\* is longer than its field of the block
MaxFieldExcess == 2

----------------------------------------------------------------------------
(* Values held by the registry: Python int, str or None.                   *)

IntV(n) == [k |-> "int", i |-> n, s |-> ""]
StrV(t) == [k |-> "str", i |-> 0, s |-> t]
NoneV == [k |-> "none", i |-> 0, s |-> ""]


----------------------------------------------------------------------------
(* The parameter registry.                                                 *)

\* _build_param_dict: one entry per add_parameter call, in call order.
\* off and len are the offset and the width of the regex group the value is
\* decoded from (len 0: the regex is not positional), f_getval the decoder
\* applied to the group, f_format the formatter whose identity
\* set_from_value inspects.
ParamTable == <<
    [name |-> "TransmitPulseLength", off |-> 4, len |-> 2, f_getval |-> "convert_word_to_int", f_format |-> "word_to_string",
     visibility |-> "READ_WRITE", default_value |-> IntV(2)],
    [name |-> "BlankingDistance", off |-> 6, len |-> 2, f_getval |-> "convert_word_to_int", f_format |-> "word_to_string",
     visibility |-> "READ_WRITE", default_value |-> IntV(16)],
    [name |-> "ReceiveLength", off |-> 8, len |-> 2, f_getval |-> "convert_word_to_int", f_format |-> "word_to_string",
     visibility |-> "READ_WRITE", default_value |-> IntV(7)],
    [name |-> "TimeBetweenPings", off |-> 10, len |-> 2, f_getval |-> "convert_word_to_int", f_format |-> "word_to_string",
     visibility |-> "READ_WRITE", default_value |-> NoneV],
    [name |-> "TimeBetweenBurstSequences", off |-> 12, len |-> 2, f_getval |-> "convert_word_to_int", f_format |-> "word_to_string",
     visibility |-> "READ_ONLY", default_value |-> NoneV],
    [name |-> "NumberPings", off |-> 14, len |-> 2, f_getval |-> "convert_word_to_int", f_format |-> "word_to_string",
     visibility |-> "READ_ONLY", default_value |-> NoneV],
    [name |-> "AvgInterval", off |-> 16, len |-> 2, f_getval |-> "convert_word_to_int", f_format |-> "word_to_string",
     visibility |-> "READ_WRITE", default_value |-> IntV(32)],
    [name |-> "UserNumberOfBeams", off |-> 18, len |-> 2, f_getval |-> "convert_word_to_int", f_format |-> "word_to_string",
     visibility |-> "READ_ONLY", default_value |-> IntV(3)],
    [name |-> "TimingControlRegister", off |-> 20, len |-> 2, f_getval |-> "convert_word_to_int", f_format |-> "word_to_string",
     visibility |-> "READ_ONLY", default_value |-> NoneV],
    [name |-> "PowerControlRegister", off |-> 22, len |-> 2, f_getval |-> "convert_word_to_int", f_format |-> "word_to_string",
     visibility |-> "READ_ONLY", default_value |-> NoneV],
    [name |-> "A1_1Spare", off |-> 24, len |-> 2, f_getval |-> "group", f_format |-> "identity",
     visibility |-> "READ_ONLY", default_value |-> NoneV],
    [name |-> "B0_1Spare", off |-> 26, len |-> 2, f_getval |-> "group", f_format |-> "identity",
     visibility |-> "READ_ONLY", default_value |-> NoneV],
    [name |-> "B1_1Spare", off |-> 28, len |-> 2, f_getval |-> "group", f_format |-> "identity",
     visibility |-> "READ_ONLY", default_value |-> NoneV],
    [name |-> "CompassUpdateRate", off |-> 30, len |-> 2, f_getval |-> "convert_word_to_int", f_format |-> "word_to_string",
     visibility |-> "READ_ONLY", default_value |-> IntV(1)],
    [name |-> "CoordinateSystem", off |-> 32, len |-> 2, f_getval |-> "convert_word_to_int", f_format |-> "word_to_string",
     visibility |-> "READ_WRITE", default_value |-> IntV(0)],
    [name |-> "NumberOfBins", off |-> 34, len |-> 2, f_getval |-> "convert_word_to_int", f_format |-> "word_to_string",
     visibility |-> "READ_ONLY", default_value |-> IntV(1)],
    [name |-> "BinLength", off |-> 36, len |-> 2, f_getval |-> "convert_word_to_int", f_format |-> "word_to_string",
     visibility |-> "READ_ONLY", default_value |-> IntV(7)],
    [name |-> "MeasurementInterval", off |-> 38, len |-> 2, f_getval |-> "convert_word_to_int", f_format |-> "word_to_string",
     visibility |-> "READ_ONLY", default_value |-> IntV(3600)],
    [name |-> "DeploymentName", off |-> 40, len |-> 6, f_getval |-> "convert_bytes_to_string", f_format |-> "identity",
     visibility |-> "READ_ONLY", default_value |-> NoneV],
    [name |-> "WrapMode", off |-> 46, len |-> 2, f_getval |-> "convert_word_to_int", f_format |-> "word_to_string",
     visibility |-> "READ_ONLY", default_value |-> NoneV],
    [name |-> "ClockDeploy", off |-> 48, len |-> 6, f_getval |-> "convert_words_to_datetime", f_format |-> "identity",
     visibility |-> "READ_ONLY", default_value |-> NoneV],
    [name |-> "DiagnosticInterval", off |-> 54, len |-> 4, f_getval |-> "convert_double_word_to_int", f_format |-> "double_word_to_string",
     visibility |-> "READ_ONLY", default_value |-> IntV(10800)],
    [name |-> "Mode", off |-> 58, len |-> 2, f_getval |-> "convert_double_word_to_int", f_format |-> "word_to_string",
     visibility |-> "READ_ONLY", default_value |-> IntV(96)],
    [name |-> "AdjustmentSoundSpeed", off |-> 60, len |-> 2, f_getval |-> "convert_word_to_int", f_format |-> "word_to_string",
     visibility |-> "READ_WRITE", default_value |-> IntV(1525)],
    [name |-> "NumberSamplesInDiagMode", off |-> 62, len |-> 2, f_getval |-> "convert_word_to_int", f_format |-> "word_to_string",
     visibility |-> "READ_ONLY", default_value |-> IntV(1)],
    [name |-> "NumberBeamsPerCellInDiagMode", off |-> 64, len |-> 2, f_getval |-> "convert_word_to_int", f_format |-> "word_to_string",
     visibility |-> "READ_ONLY", default_value |-> IntV(1)],
    [name |-> "NumberPingsInDiagMode", off |-> 66, len |-> 2, f_getval |-> "convert_word_to_int", f_format |-> "word_to_string",
     visibility |-> "READ_ONLY", default_value |-> IntV(1)],
    [name |-> "ModeTest", off |-> 68, len |-> 2, f_getval |-> "convert_word_to_int", f_format |-> "word_to_string",
     visibility |-> "READ_ONLY", default_value |-> NoneV],
    [name |-> "AnalogInputAddress", off |-> 70, len |-> 2, f_getval |-> "convert_word_to_int", f_format |-> "word_to_string",
     visibility |-> "READ_ONLY", default_value |-> NoneV],
    [name |-> "SwVersion", off |-> 72, len |-> 2, f_getval |-> "convert_word_to_int", f_format |-> "word_to_string",
     visibility |-> "READ_ONLY", default_value |-> NoneV],
    [name |-> "User1Spare", off |-> 74, len |-> 2, f_getval |-> "group", f_format |-> "identity",
     visibility |-> "READ_ONLY", default_value |-> NoneV],
    [name |-> "VelocityAdjTable", off |-> 76, len |-> 180, f_getval |-> "b64encode", f_format |-> "identity",
     visibility |-> "READ_ONLY", default_value |-> NoneV],
    [name |-> "Comments", off |-> 256, len |-> 180, f_getval |-> "convert_bytes_to_string", f_format |-> "identity",
     visibility |-> "READ_ONLY", default_value |-> NoneV],
    [name |-> "WaveMeasurementMode", off |-> 436, len |-> 2, f_getval |-> "convert_word_to_int", f_format |-> "word_to_string",
     visibility |-> "READ_ONLY", default_value |-> NoneV],
    [name |-> "PercentageForCellPositioning", off |-> 438, len |-> 2, f_getval |-> "convert_word_to_int", f_format |-> "word_to_string",
     visibility |-> "READ_ONLY", default_value |-> NoneV],
    [name |-> "WaveTransmitPulse", off |-> 440, len |-> 2, f_getval |-> "convert_word_to_int", f_format |-> "word_to_string",
     visibility |-> "READ_ONLY", default_value |-> NoneV],
    [name |-> "WaveBlankingDistance", off |-> 442, len |-> 2, f_getval |-> "convert_word_to_int", f_format |-> "word_to_string",
     visibility |-> "READ_ONLY", default_value |-> NoneV],
    [name |-> "WaveCellSize", off |-> 444, len |-> 2, f_getval |-> "convert_word_to_int", f_format |-> "word_to_string",
     visibility |-> "READ_ONLY", default_value |-> NoneV],
    [name |-> "NumberDiagnosticSamples", off |-> 446, len |-> 2, f_getval |-> "convert_word_to_int", f_format |-> "word_to_string",
     visibility |-> "READ_ONLY", default_value |-> NoneV],
    [name |-> "A1_2Spare", off |-> 448, len |-> 2, f_getval |-> "group", f_format |-> "identity",
     visibility |-> "READ_ONLY", default_value |-> NoneV],
    [name |-> "B0_2Spare", off |-> 450, len |-> 2, f_getval |-> "group", f_format |-> "identity",
     visibility |-> "READ_ONLY", default_value |-> NoneV],
    [name |-> "NumberSamplesPerBurst", off |-> 452, len |-> 2, f_getval |-> "convert_word_to_int", f_format |-> "word_to_string",
     visibility |-> "READ_ONLY", default_value |-> IntV(0)],
    [name |-> "User2Spare", off |-> 454, len |-> 2, f_getval |-> "group", f_format |-> "identity",
     visibility |-> "READ_ONLY", default_value |-> NoneV],
    [name |-> "AnalogOutputScale", off |-> 456, len |-> 2, f_getval |-> "convert_word_to_int", f_format |-> "word_to_string",
     visibility |-> "READ_ONLY", default_value |-> NoneV],
    [name |-> "CorrelationThreshold", off |-> 458, len |-> 2, f_getval |-> "convert_word_to_int", f_format |-> "word_to_string",
     visibility |-> "READ_WRITE", default_value |-> IntV(0)],
    [name |-> "User3Spare", off |-> 460, len |-> 2, f_getval |-> "group", f_format |-> "identity",
     visibility |-> "READ_ONLY", default_value |-> IntV(0)],
    [name |-> "TransmitPulseLengthSecondLag", off |-> 462, len |-> 2, f_getval |-> "convert_word_to_int", f_format |-> "word_to_string",
     visibility |-> "READ_ONLY", default_value |-> IntV(2)],
    [name |-> "User4Spare", off |-> 464, len |-> 30, f_getval |-> "group", f_format |-> "identity",
     visibility |-> "READ_ONLY", default_value |-> NoneV],
    [name |-> "StageMatchFilterConstants", off |-> 494, len |-> 16, f_getval |-> "b64encode", f_format |-> "identity",
     visibility |-> "READ_ONLY", default_value |-> NoneV],
    [name |-> "ClockSyncInterval", off |-> 0, len |-> 0, f_getval |-> "group", f_format |-> "str",
     visibility |-> "IMMUTABLE", default_value |-> StrV("00:00:00")],
    [name |-> "AcquireStatusInterval", off |-> 0, len |-> 0, f_getval |-> "group", f_format |-> "str",
     visibility |-> "IMMUTABLE", default_value |-> StrV("00:00:00")]
>>

ParamNames == {ParamTable[n].name : n \in DOMAIN ParamTable}

\* the entry of each registered name
ParamDesc ==
    [name \in ParamNames |->
        ParamTable[CHOOSE n \in DOMAIN ParamTable : ParamTable[n].name = name]]

Desc(name) == ParamDesc[name]

\* class EngineeringParameter
EngineeringParameter == {"ClockSyncInterval", "AcquireStatusInterval"}

\* class Parameter: the fields of the user-configuration block
Parameter == ParamNames \ EngineeringParameter

\* key.endswith('Spare')
endswith_Spare(name) ==
    name \in {"A1_1Spare", "B0_1Spare", "B1_1Spare", "User1Spare", "A1_2Spare",
              "B0_2Spare", "User2Spare", "User3Spare", "User4Spare"}

\* NortekProtocolParameterDict.get_keys
get_keys == {name \in ParamNames : ~endswith_Spare(name)}

\* NortekProtocolParameterDict.get_config: the snapshot without the spares
get_config(pd) == [name \in get_keys |-> pd[name]]

\* the registry _build_param_dict leaves: the default value for every key of
\* get_keys, None for the spares
InitParamDict ==
    [name \in ParamNames |->
        IF name \in get_keys THEN Desc(name).default_value ELSE NoneV]

\* set_from_value tests the formatter: the word and double-word formatters
\* take an int, every other formatter a str
ExpectsInt(name) ==
    Desc(name).f_format \in {"word_to_string", "double_word_to_string"}

\* Variant of set_from_value_raises that looks at the visibility before the
\* kind of the value.  C4 does not hold of it.
set_from_value_raises_visibility_first(name, value) ==
    IF name \notin ParamNames THEN "InstrumentParameterException"
    ELSE IF Desc(name).visibility = "READ_ONLY" THEN "ReadOnlyException"
    ELSE IF ExpectsInt(name) /\ value.k # "int"
        THEN "InstrumentParameterException"
    ELSE IF ~ExpectsInt(name) /\ value.k # "str"
        THEN "InstrumentParameterException"
    ELSE "ok"

\* NortekProtocolParameterDict.set_from_value: the exception it raises for
\* (name, value), "ok" when it stores the value.  The checks run in the
\* order of the code: name, kind of the value, visibility.
set_from_value_raises(name, value) ==
    IF name \notin ParamNames THEN "InstrumentParameterException"
    ELSE IF ExpectsInt(name) /\ value.k # "int"
        THEN "InstrumentParameterException"
    ELSE IF ~ExpectsInt(name) /\ value.k # "str"
        THEN "InstrumentParameterException"
    ELSE IF Desc(name).visibility = "READ_ONLY" THEN "ReadOnlyException"
    ELSE "ok"

\* NortekProtocolParameterDict.set_from_value: the registry after the call
set_from_value(pd, name, value) ==
    IF set_from_value_raises(name, value) = "ok"
    THEN [pd EXCEPT ![name] = value]
    ELSE pd

\* The record of one set_from_value call: its position in the batch, the
\* call, what it raised and the stored value of the parameter before and
\* after it.
StagingEntry(pd, pos, name, value) ==
    [pos |-> pos, name |-> name, value |-> value,
     raises |-> set_from_value_raises(name, value),
     old |-> IF name \in ParamNames THEN pd[name] ELSE NoneV,
     new |-> IF name \in ParamNames
             THEN set_from_value(pd, name, value)[name] ELSE NoneV]

\* no set_from_value call was made
NoCall ==
    [pos |-> 0, name |-> "", value |-> NoneV, raises |-> "ok", old |-> NoneV,
     new |-> NoneV]

\* The loop of _handler_command_set over params_to_set.iteritems(): it calls
\* set_from_value pair by pair, from pair pos of the batch on, and stops at
\* the first exception.  last is the record of the call made last.
RECURSIVE StageLoop(_, _, _, _)
StageLoop(pd, batch, pos, last) ==
    IF pos > Len(batch) THEN [pd |-> pd, last |-> last, raises |-> "ok"]
    ELSE LET name == batch[pos].name
             value == batch[pos].value
             r == set_from_value_raises(name, value)
             call == StagingEntry(pd, pos, name, value)
         IN IF r # "ok"
            THEN [pd |-> pd, last |-> call, raises |-> r]
            ELSE StageLoop(set_from_value(pd, name, value), batch, pos + 1,
                           call)

\* the loop over the whole batch
Stage(pd, batch) == StageLoop(pd, batch, 1, NoCall)

\* parameters = copy.copy(self._param_dict): a shallow copy.  The copy is a
\* new NortekProtocolParameterDict whose _param_dict attribute is the very
\* dict of the live registry, so every value stored through the copy is
\* stored in the live registry.  The operator gives the live registry after
\* the staging loop has left staged in the copy of pd.
LiveAfterStaging(pd, staged) == staged

\* parameters.format(name) applies the formatter to the stored value; the
\* word formatters (value & 0xff) and the concatenation output += ... raise
\* a TypeError on None.  _create_set_output formats every name of Parameter.
create_set_output_raises(pd) ==
    IF \E name \in Parameter : pd[name] = NoneV THEN "TypeError" ELSE "ok"

----------------------------------------------------------------------------
(* Update of the registry from a user-configuration block.  A block that   *)
(* passed _check_configuration is represented by the configuration c it    *)
(* carries; the values its fields decode to depend on c only.              *)

\* the configurations the instrument may hold
DeviceConfigs == {1, 2}

\* f_getval(match) of the parameter on a block carrying configuration c
DecodedValue(name, c) ==
    LET d == Desc(name)
    IN IF d.f_getval \in {"convert_word_to_int", "convert_double_word_to_int"}
       THEN IntV(c)
       ELSE IF d.f_getval = "convert_words_to_datetime"
       THEN [k |-> "list", i |-> c, s |-> ""]
       ELSE StrV("dev")

\* The decoders check the width of the group they are given:
\* convert_word_to_int wants 2 bytes, convert_double_word_to_int 4,
\* convert_words_to_datetime 6, and raise SampleException otherwise.
getval_raises_on(d) ==
    \/ d.f_getval = "convert_word_to_int" /\ d.len # 2
    \/ d.f_getval = "convert_double_word_to_int" /\ d.len # 4
    \/ d.f_getval = "convert_words_to_datetime" /\ d.len # 6

\* the decoder of name raises on the group its regex captures
f_getval_raises(name) == getval_raises_on(Desc(name))

\* parameters whose decoder raises on every block
RaisingParameters == {name \in Parameter : f_getval_raises(name)}

\* the position of a registered name in the order of the add_parameter calls
ParamIndex(name) ==
    CHOOSE n \in DOMAIN ParamTable : ParamTable[n].name = name

\* _param_dict.update(block) visits the parameters in the iteration order of
\* a Python dict, which the driver does not control, and the first decoder
\* that raises ends the visit.  The sets of parameters updated before that
\* point, for three orders: a raising parameter comes first, the order is
\* that of the add_parameter calls, or a raising parameter comes after every
\* other parameter.
UpdateVisitsOf(parameters, raising) ==
    IF raising = {} THEN {parameters}
    ELSE {{},
          {name \in parameters :
              \A r \in raising : ParamIndex(name) < ParamIndex(r)},
          parameters \ raising}

UpdateVisits == UpdateVisitsOf(Parameter, RaisingParameters)

\* _param_dict.update(block): NortekParameterDictVal.update of every visited
\* parameter stores the decoded value.  The regex of the engineering
\* parameters does not match a block, they keep their value.
update(pd, c, visited) ==
    [pd |-> [name \in ParamNames |->
                IF name \in visited THEN DecodedValue(name, c) ELSE pd[name]],
     raises |-> IF RaisingParameters = {} THEN "ok" ELSE "SampleException"]

----------------------------------------------------------------------------
(* The transport.  An entry of the wire log is one command written to the  *)
(* transport with the reply the driver got for it: "-" when the command    *)
(* was written without waiting, "timeout" when the awaited prompt did not  *)
(* arrive, "invalid" when the response did not pass its check, else the    *)
(* prompt or response that arrived.  time.sleep calls are logged as the    *)
(* command "sleep".                                                        *)

Entry(cmd, reply) == [cmd |-> cmd, reply |-> reply]

\* steps of a handler: _connection.send(cmd), time.sleep(..) and
\* _do_cmd_resp(cmd, expected_prompt=expect) ("prompt": any prompt)
send(cmd) == [op |-> "send", cmd |-> cmd, expect |-> "-"]
sleep == [op |-> "sleep", cmd |-> "sleep", expect |-> "-"]
do_cmd_resp(cmd, expect) == [op |-> "resp", cmd |-> cmd, expect |-> expect]

\* commands whose response handler validates the response
\* (_parse_what_mode_response, _parse_read_hw_config,
\* _parse_read_head_config, _parse_read_user_config)
Validated == {"II", "GP", "GH", "GC"}

\* The ways a script of steps can end: n = 0, it runs to its end; n > 0,
\* step n is an exchange that raises how.
Endings(script) ==
    {[n |-> 0, how |-> "ok"]} \cup
    {[n |-> n, how |-> "InstrumentTimeoutException"] :
        n \in {m \in DOMAIN script : script[m].op = "resp"}} \cup
    {[n |-> n, how |-> "InstrumentProtocolException"] :
        n \in {m \in DOMAIN script :
                 script[m].op = "resp" /\ script[m].cmd \in Validated}}

\* the wire log of a script that ends as e
Run(script, e) ==
    [m \in 1..(IF e.n = 0 THEN Len(script) ELSE e.n) |->
        Entry(script[m].cmd,
              IF script[m].op # "resp" THEN "-"
              ELSE IF m # e.n THEN script[m].expect
              ELSE IF e.how = "InstrumentTimeoutException" THEN "timeout"
              ELSE "invalid")]

\* an exchange of the log that was answered
Answered(en) == en.reply \notin {"-", "timeout"}

\* The instrument: the confirmation of a break (MC) puts it in command mode,
\* the start command (ST) in measurement mode, power down (PD) and the end
\* of an acquisition (AD) in power-down mode.
InstrStep(mode, en) ==
    IF ~Answered(en) THEN mode
    ELSE IF en.cmd = "MC" THEN "command"
    ELSE IF en.cmd = "ST" THEN "measurement"
    ELSE IF en.cmd \in {"PD", "AD"} THEN "powerdown"
    ELSE mode

RECURSIVE InstrAfter(_, _)
InstrAfter(mode, log) ==
    IF log = <<>> THEN mode
    ELSE InstrAfter(InstrStep(mode, Head(log)), Tail(log))

----------------------------------------------------------------------------
(* _update_params: the read of the user configuration.                     *)

\* Time is counted in ticks, one tick being the shortest time one round of a
\* wait loop takes.  The timeouts are scaled to the bounds: a loop whose
\* rounds all take one tick goes round MaxProbes (MaxReads) times.
probe_timeout == MaxProbes - 1
read_timeout == MaxReads - 1

\* the times one round of a wait loop may take
Durations == {1, 2}

\* Variant of timed_out that gives up after the first round.  The waits do
\* not last to their deadline with it.
timed_out_after_one_round(elapsed, timeout) == elapsed > 0

\* time.time() > starttime + timeout, elapsed being time.time() - starttime
timed_out(elapsed, timeout) == elapsed > timeout

\* no bounded wait was run
NoWait == [loop |-> "none", elapsed |-> 0, timeout |-> 0, raises |-> "ok"]

Waited(loop, elapsed, timeout, raises) ==
    [loop |-> loop, elapsed |-> elapsed, timeout |-> timeout,
     raises |-> raises]

\* what arrives in the prompt buffer after one GC: nothing of the length of
\* a block plus ack ("none"), a buffer of that length that fails
\* _check_configuration ("invalid"), or a valid block carrying c ("block");
\* took is the time the round of the loop took
ReadReply(kind, c, took) == [kind |-> kind, c |-> c, took |-> took]

ReadRepliesIn(durations) ==
    {ReadReply(kind, 0, d) : kind \in {"none", "invalid"}, d \in durations}
    \cup {ReadReply("block", c, d) : c \in DeviceConfigs, d \in durations}

\* The replies to the successive GC commands: n replies that are no valid
\* block, then a last reply.  After them the instrument stays silent.
ReadSeqsIn(quiet, last) ==
    UNION {{q \o <<r>> : q \in [1..n -> quiet], r \in last} :
              n \in 0..(MaxReads - 1)}

\* the choices the environment and the dict order make for one read; the
\* dict order matters when a block arrives
ReadChoicesIn(seqs, visits) ==
    {[reads |-> rs, visited |-> v] : rs \in seqs, v \in visits} \
    {ch \in [reads : seqs, visited : visits] :
        ch.reads[Len(ch.reads)].kind # "block" /\ ch.visited # {}}

ReadChoicesOf(seqs) == ReadChoicesIn(seqs, UpdateVisits)

\* an invalid reply to every GC sent before the deadline, in rounds of one
\* tick
AlwaysInvalid == [n \in 1..MaxReads |-> ReadReply("invalid", 0, 1)]

\* the reads of the protocol specifications: one reply to the first GC, in
\* a round of one tick, or an invalid reply to every GC
ReadChoices ==
    ReadChoicesOf({<<r>> : r \in ReadRepliesIn({1})} \cup {AlwaysInvalid})

\* the reads of the specification of the waits: rounds of every duration,
\* the rounds before the last get no answer or an invalid one
WaitReadChoices ==
    ReadChoicesOf(ReadSeqsIn({r \in ReadRepliesIn(Durations) :
                                 r.kind # "block"},
                             ReadRepliesIn(Durations)))

\* the end of what a reply leaves in the prompt buffer: a valid block ends
\* with the ack
ReadBytes(r) ==
    IF r.kind = "block" THEN <<6, 6>>
    ELSE IF r.kind = "invalid" THEN <<0, 0>>
    ELSE <<>>

\* the end of the loop of _update_params on a valid block: u is what
\* _param_dict.update did
update_params_end(old_config, u, buf, log, elapsed) ==
    [pd |-> u.pd, promptbuf |-> buf, wire |-> log, raises |-> u.raises,
     config_change |-> u.raises = "ok" /\ get_config(u.pd) # old_config,
     waited |-> Waited("_update_params", elapsed, read_timeout, "ok")]

\* The while loop of _update_params: clear the prompt buffer, send GC; on a
\* valid block update the registry, signal a configuration change when
\* get_config() differs from old_config, and return; otherwise raise the
\* timeout when the deadline has passed, else go round.  r is the reply to
\* this round's GC, rest the replies to come, now the time elapsed at the end
\* of the round.
RECURSIVE update_params_loop(_, _, _, _, _, _)
update_params_round(old_config, pd, r, rest, visited, log, now) ==
    IF r.kind = "block"
    THEN update_params_end(old_config, update(pd, r.c, visited),
                           ReadBytes(r), Append(log, Entry("GC", r.kind)),
                           now)
    ELSE IF timed_out(now, read_timeout)
    THEN [pd |-> pd, promptbuf |-> ReadBytes(r),
          wire |-> Append(log, Entry("GC", r.kind)),
          raises |-> "InstrumentTimeoutException", config_change |-> FALSE,
          waited |-> Waited("_update_params", now, read_timeout,
                            "InstrumentTimeoutException")]
    ELSE update_params_loop(old_config, pd, rest, visited,
                            Append(log, Entry("GC", r.kind)), now)

\* one round of the loop after elapsed; when the replies are used up the
\* instrument stays silent
update_params_loop(old_config, pd, reads, visited, log, elapsed) ==
    IF reads = <<>>
    THEN update_params_round(old_config, pd, ReadReply("none", 0, 1), <<>>,
                             visited, log, elapsed + 1)
    ELSE update_params_round(old_config, pd, Head(reads), Tail(reads),
                             visited, log, elapsed + Head(reads).took)

\* _update_params, called in protocol state st with the prompt buffer buf
update_params(st, pd, buf, rd) ==
    IF st # "COMMAND"
    THEN [pd |-> pd, promptbuf |-> buf, wire |-> <<>>,
          raises |-> "InstrumentStateException", config_change |-> FALSE,
          waited |-> NoWait]
    ELSE update_params_loop(get_config(pd), pd, rd.reads, rd.visited, <<>>,
                            0)

----------------------------------------------------------------------------
(* _get_mode: the what-mode probe.  Buffers are sequences of bytes.        *)

\* InstrumentPrompts
COMMAND_MODE == <<67, 111, 109, 109, 97, 110, 100, 32, 109, 111, 100, 101>>
CONFIRMATION == <<67, 111, 110, 102, 105, 114, 109, 58>>
Z_ACK == <<6, 6>>
Z_NACK == <<21, 21>>

\* InstrumentModes
MODE_FIRMWARE_UPGRADE == <<0, 0, 6, 6>>
MODE_MEASUREMENT == <<1, 0, 6, 6>>
MODE_COMMAND == <<2, 0, 6, 6>>
MODE_DATA_RETRIEVAL == <<4, 0, 6, 6>>
MODE_CONFIRMATION == <<5, 0, 6, 6>>

\* item in buf, for Python strings
In(item, buf) ==
    \E n \in 0..(Len(buf) - Len(item)) : SubSeq(buf, n + 1, n + Len(item)) = item

\* self._prompts.list(): the values of InstrumentPrompts in the order of
\* their attribute names
PromptList == <<COMMAND_MODE, CONFIRMATION, Z_ACK, Z_NACK>>

\* Variant of FirstPrompt that takes the NACK for a prompt like the others.
FirstPromptOrNack(buf) ==
    LET hits == {n \in DOMAIN PromptList : In(PromptList[n], buf)}
    IN IF hits = {} THEN <<>>
       ELSE PromptList[CHOOSE n \in hits : \A m \in hits : n <= m]

\* the for loop of _get_mode over the prompt list: the first prompt of the
\* list that is in the buffer and is not the NACK, <<>> when there is none
FirstPrompt(buf) ==
    LET hits == {n \in DOMAIN PromptList :
                    In(PromptList[n], buf) /\ PromptList[n] # Z_NACK}
    IN IF hits = {} THEN <<>>
       ELSE PromptList[CHOOSE n \in hits : \A m \in hits : n <= m]

\* What may arrive during one delay of the probe: nothing, the NACK, one
\* prompt or one mode reply, or two of them in a row.
ProbeBytes ==
    {<<>>, Z_NACK, COMMAND_MODE, CONFIRMATION, MODE_FIRMWARE_UPGRADE,
     MODE_MEASUREMENT, MODE_COMMAND, MODE_DATA_RETRIEVAL, MODE_CONFIRMATION,
     CONFIRMATION \o COMMAND_MODE, CONFIRMATION \o MODE_COMMAND,
     MODE_MEASUREMENT \o MODE_COMMAND, MODE_COMMAND \o MODE_CONFIRMATION}

\* the reply to one probe: the bytes that arrive during the round and the
\* time the round takes (sleep(delay) and what the scheduler adds)
ProbeReply(bytes, took) == [bytes |-> bytes, took |-> took]

ProbeReplies == {ProbeReply(b, d) : b \in ProbeBytes, d \in Durations}

\* The replies to the successive probes until _get_mode ends: replies that
\* make the loop go round (they carry no prompt but the NACK), then a last.
\* After them the instrument stays silent.
ProbeSeqs ==
    UNION {{quiet \o <<last>> :
              quiet \in [1..n -> {r \in ProbeReplies :
                                     r.bytes \in {<<>>, Z_NACK}}],
              last \in ProbeReplies} : n \in 0..(MaxProbes - 1)}

\* The while loop of _get_mode: send II, sleep(delay) while the reply is
\* appended to the prompt buffer, return the first prompt found; raise the
\* timeout when the deadline has passed, else go round.  nbuf is the prompt
\* buffer at the end of the round, rest the replies to come, now the time
\* elapsed at the end of the round.
RECURSIVE get_mode_loop(_, _, _, _)
get_mode_round(nbuf, rest, nlog, now) ==
    IF FirstPrompt(nbuf) # <<>>
    THEN [prompt |-> FirstPrompt(nbuf), promptbuf |-> nbuf, wire |-> nlog,
          raises |-> "ok",
          waited |-> Waited("_get_mode", now, probe_timeout, "ok")]
    ELSE IF timed_out(now, probe_timeout)
    THEN [prompt |-> <<>>, promptbuf |-> nbuf, wire |-> nlog,
          raises |-> "InstrumentTimeoutException",
          waited |-> Waited("_get_mode", now, probe_timeout,
                            "InstrumentTimeoutException")]
    ELSE get_mode_loop(nbuf, rest, nlog, now)

\* one round of the loop after elapsed; when the replies are used up the
\* instrument stays silent
get_mode_loop(buf, replies, log, elapsed) ==
    IF replies = <<>>
    THEN get_mode_round(buf, <<>>,
                        log \o <<Entry("II", "-"), Entry("sleep", "-")>>,
                        elapsed + 1)
    ELSE get_mode_round(buf \o Head(replies).bytes, Tail(replies),
                        log \o <<Entry("II", "-"), Entry("sleep", "-")>>,
                        elapsed + Head(replies).took)

\* _get_mode(timeout): the prompt buffer is cleared first
get_mode(replies) == get_mode_loop(<<>>, replies, <<>>, 0)

\* no call of _get_mode yet
NoModeCall ==
    [replies |-> <<>>,
     got |-> [prompt |-> <<>>, promptbuf |-> <<>>, wire |-> <<>>,
              raises |-> "none", waited |-> NoWait]]

\* What may arrive during one delay of a call of _get_mode on its own:
\* nothing, the NACK, a prompt, a mode reply (it ends in the ack), the
\* halves of the confirmation prompt, a single byte of the NACK, and the
\* NACK with the ack after it.
WhatModeBytes ==
    {<<>>, Z_NACK, COMMAND_MODE, CONFIRMATION, MODE_COMMAND,
     SubSeq(CONFIRMATION, 1, 4), SubSeq(CONFIRMATION, 5, 8), <<21>>,
     Z_NACK \o Z_ACK}

\* the replies to up to MaxProbes probes in a row, each of any duration
WhatModeSeqs ==
    UNION {[1..n -> {ProbeReply(b, d) : b \in WhatModeBytes,
                                        d \in Durations}] :
              n \in 1..MaxProbes}

\* Variant of discover_next that looks for the measurement and confirmation
\* sentinels before the command sentinel.  C5 does not hold of it.
discover_next_measurement_first(prompt, buf) ==
    IF prompt = COMMAND_MODE THEN "COMMAND"
    ELSE IF prompt = CONFIRMATION THEN "AUTOSAMPLE"
    ELSE IF prompt = Z_ACK
    THEN IF In(MODE_MEASUREMENT, buf) \/ In(MODE_CONFIRMATION, buf)
         THEN "AUTOSAMPLE"
         ELSE IF In(MODE_COMMAND, buf) THEN "COMMAND"
         ELSE "raise"
    ELSE "raise"

\* _handler_unknown_discover: the next state for the prompt _get_mode
\* returned and the buffer it left, "raise" for InstrumentStateException
discover_next(prompt, buf) ==
    IF prompt = COMMAND_MODE THEN "COMMAND"
    ELSE IF prompt = CONFIRMATION THEN "AUTOSAMPLE"
    ELSE IF prompt = Z_ACK
    THEN IF In(MODE_COMMAND, buf) THEN "COMMAND"
         ELSE IF In(MODE_MEASUREMENT, buf) \/ In(MODE_CONFIRMATION, buf)
         THEN "AUTOSAMPLE"
         ELSE "raise"
    ELSE "raise"

\* Variant of unknown_discover that turns the timeout of _get_mode into
\* InstrumentStateException.  C6 does not hold of it.
unknown_discover_state_error(pd, replies) ==
    [next |-> IF get_mode(replies).raises = "ok"
                 /\ discover_next(get_mode(replies).prompt,
                                  get_mode(replies).promptbuf) # "raise"
              THEN discover_next(get_mode(replies).prompt,
                                 get_mode(replies).promptbuf)
              ELSE "None",
     raises |-> IF get_mode(replies).raises = "ok"
                   /\ discover_next(get_mode(replies).prompt,
                                    get_mode(replies).promptbuf) # "raise"
                THEN "ok" ELSE "InstrumentStateException",
     wire |-> get_mode(replies).wire,
     promptbuf |-> get_mode(replies).promptbuf, pd |-> pd,
     waited |-> get_mode(replies).waited]

\* _handler_unknown_discover as a whole
unknown_discover(pd, replies) ==
    LET g == get_mode(replies)
        nxt == discover_next(g.prompt, g.promptbuf)
    IN [next |-> IF g.raises = "ok" /\ nxt # "raise" THEN nxt ELSE "None",
        raises |-> IF g.raises # "ok" THEN g.raises
                   ELSE IF nxt = "raise" THEN "InstrumentStateException"
                   ELSE "ok",
        wire |-> g.wire, promptbuf |-> g.promptbuf, pd |-> pd,
        waited |-> g.waited]

\* Variant of direct_access_stop_direct that goes back to COMMAND, the state
\* direct access was started from, whenever the probe got a prompt it knows.
\* C12 does not hold of it.
direct_access_stop_direct_previous(pd, replies) ==
    [unknown_discover(pd, replies) EXCEPT
        !.next = IF @ = "None" THEN "None" ELSE "COMMAND"]

\* _handler_direct_access_stop_direct: it calls _handler_unknown_discover
\* and returns the state it found
direct_access_stop_direct(pd, replies) == unknown_discover(pd, replies)

----------------------------------------------------------------------------
(* The protocol state machine.                                             *)

\* class ProtocolState
ProtocolState == {"UNKNOWN", "COMMAND", "AUTOSAMPLE", "DIRECT_ACCESS"}

\* class ProtocolEvent, ENTER and EXIT left out
ProtocolEvent ==
    {"GET", "SET", "DISCOVER", "ACQUIRE_SAMPLE", "ACQUIRE_STATUS",
     "START_AUTOSAMPLE", "STOP_AUTOSAMPLE", "START_DIRECT", "STOP_DIRECT",
     "EXECUTE_DIRECT", "CLOCK_SYNC", "SCHEDULED_CLOCK_SYNC", "RESET",
     "SET_CONFIGURATION", "READ_CLOCK", "READ_MODE", "POWER_DOWN",
     "READ_BATTERY_VOLTAGE", "READ_ID", "GET_HW_CONFIGURATION",
     "GET_HEAD_CONFIGURATION", "READ_USER_CONFIGURATION",
     "SCHEDULED_ACQUIRE_STATUS"}

\* Variant of Handlers with a handler for GET in UNKNOWN.
HandlersWithGetInUnknown ==
    {<<"UNKNOWN", "DISCOVER", "_handler_unknown_discover">>,
     <<"UNKNOWN", "GET", "_handler_get">>,
     <<"COMMAND", "GET", "_handler_get">>,
     <<"COMMAND", "START_DIRECT", "_handler_command_start_direct">>,
     <<"DIRECT_ACCESS", "STOP_DIRECT", "_handler_direct_access_stop_direct">>,
     <<"DIRECT_ACCESS", "EXECUTE_DIRECT",
       "_handler_direct_access_execute_direct">>}

\* the add_handler calls of __init__: <<state, event, handler>>
Handlers ==
    {<<"UNKNOWN", "DISCOVER", "_handler_unknown_discover">>,
     <<"COMMAND", "SET", "_handler_command_set">>,
     <<"COMMAND", "GET", "_handler_get">>,
     <<"COMMAND", "RESET", "_handler_command_execute_reset">>,
     <<"COMMAND", "START_AUTOSAMPLE", "_handler_command_start_autosample">>,
     <<"COMMAND", "ACQUIRE_SAMPLE", "_handler_command_acquire_sample">>,
     <<"COMMAND", "ACQUIRE_STATUS", "_handler_acquire_status">>,
     <<"COMMAND", "START_DIRECT", "_handler_command_start_direct">>,
     <<"COMMAND", "SET_CONFIGURATION", "_handler_command_set_configuration">>,
     <<"COMMAND", "CLOCK_SYNC", "_handler_command_clock_sync">>,
     <<"COMMAND", "SCHEDULED_CLOCK_SYNC", "_handler_command_clock_sync">>,
     <<"COMMAND", "SCHEDULED_ACQUIRE_STATUS", "_handler_acquire_status">>,
     <<"AUTOSAMPLE", "STOP_AUTOSAMPLE", "_handler_autosample_stop_autosample">>,
     <<"AUTOSAMPLE", "SCHEDULED_CLOCK_SYNC", "_handler_autosample_clock_sync">>,
     <<"AUTOSAMPLE", "SCHEDULED_ACQUIRE_STATUS", "_handler_acquire_status">>,
     <<"DIRECT_ACCESS", "STOP_DIRECT", "_handler_direct_access_stop_direct">>,
     <<"DIRECT_ACCESS", "EXECUTE_DIRECT",
       "_handler_direct_access_execute_direct">>}

\* the events state st has a handler for
Handled(st) == {h[2] : h \in {g \in Handlers : g[1] = st}}

\* class ScheduledJob with the protocol event start_scheduled_job is given
\* for each job in _handler_autosample_enter
ClockSyncJob == [job |-> "clock_sync", event |-> "CLOCK_SYNC"]
AcquireStatusJob == [job |-> "acquire_status", event |-> "ACQUIRE_STATUS"]

\* stop_scheduled_job: the job is removed from the scheduler
stop_scheduled_job(jobs, job) == {j \in jobs : j.job # job}

\* Variant of autosample_exit that stops the status job only.  C9 does not
\* hold of it.
autosample_exit_status_only(jobs) == stop_scheduled_job(jobs, "acquire_status")

\* _handler_autosample_exit
autosample_exit(jobs) ==
    stop_scheduled_job(stop_scheduled_job(jobs, "acquire_status"),
                       "clock_sync")

\* Variant of autosample_enter that starts the clock job whatever its
\* interval.  C28 does not hold of it.
autosample_enter_clock_always(jobs, pd) ==
    jobs \cup {ClockSyncJob} \cup
    (IF pd["AcquireStatusInterval"] # StrV("00:00:00")
     THEN {AcquireStatusJob} ELSE {})

\* _handler_autosample_enter: a job is started for each interval that is
\* not '00:00:00'
autosample_enter(jobs, pd) ==
    jobs \cup
    (IF pd["ClockSyncInterval"] # StrV("00:00:00")
     THEN {ClockSyncJob} ELSE {}) \cup
    (IF pd["AcquireStatusInterval"] # StrV("00:00:00")
     THEN {AcquireStatusJob} ELSE {})

\* the exit handler of st: only AUTOSAMPLE has one
exit_handler(st, jobs) ==
    IF st = "AUTOSAMPLE" THEN autosample_exit(jobs) ELSE jobs

\* _handler_command_enter: u is what _update_params did; its exception, if
\* any, leaves on_event with the state already changed
command_enter(u, jobs) ==
    [state |-> "COMMAND", pd |-> u.pd, promptbuf |-> u.promptbuf,
     armed |-> jobs, wire |-> u.wire, raises |-> u.raises,
     config_change |-> u.config_change, waited |-> u.waited]

\* InstrumentFSM._on_transition from st to next: the exit handler of st
\* runs, the current state becomes next, the enter handler of next runs
\* (_handler_command_enter reads the user configuration, rd).
on_transition(st, next, pd, buf, jobs, rd) ==
    IF next = "COMMAND"
    THEN command_enter(update_params(next, pd, buf, rd),
                       exit_handler(st, jobs))
    ELSE [state |-> next, pd |-> pd, promptbuf |-> buf,
          armed |-> IF next = "AUTOSAMPLE"
                    THEN autosample_enter(exit_handler(st, jobs), pd)
                    ELSE exit_handler(st, jobs),
          wire |-> <<>>, raises |-> "ok", config_change |-> FALSE,
          waited |-> NoWait]

\* the handlers that run the what-mode probe
Probing ==
    {"_handler_unknown_discover", "_handler_direct_access_stop_direct"}

\* no result recorded: the handler was not _handler_get
NoResult == [params |-> [form |-> "none", keys |-> <<>>], value |-> <<>>]

\* what is recorded at the dispatch of an event
Snapshot ==
    [state |-> state, config |-> get_config(param_dict), instr |-> instr,
     armed |-> armed]

\* The return of on_event: the handler left the prompt buffer buf and the
\* wire log w and ran the bounded wait hw last, t is what the transition, if
\* any, did after it, got what the handler was asked for and returned.
Returns(src, h, stg, buf, w, hw, t, got) ==
    /\ source' = src
    /\ handler' = h
    /\ pre' = Snapshot
    /\ staging' = stg
    /\ probe' = IF h \in Probing THEN buf ELSE <<>>
    /\ promptbuf' = t.promptbuf
    /\ wire' = w \o t.wire
    /\ instr' = InstrAfter(instr, w \o t.wire)
    /\ state' = t.state
    /\ param_dict' = t.pd
    /\ armed' = t.armed
    /\ outcome' = t.raises
    /\ notified' = t.config_change
    /\ waited' = IF t.waited.loop # "none" THEN t.waited ELSE hw
    /\ result' = got
    /\ whatmode' = whatmode
    /\ codec' = codec
    /\ chunker' = chunker

\* the handler sent the configuration change event: only _handler_command_set
\* calls _update_params
HandlerNotified(h, res) ==
    IF h = "_handler_command_set" THEN res.config_change ELSE FALSE

\* the bounded wait the handler ran last: the probe of the discovery, the
\* read of _handler_command_set
HandlerWaited(h, res) ==
    IF h \in Probing \cup {"_handler_command_set"} THEN res.waited
    ELSE NoWait

\* InstrumentFSM.on_event once the handler has run: res is what the handler
\* did (the state it returned or "None", the exception it raised or "ok",
\* its wire log, the prompt buffer and the registry it left); a returned
\* state makes the transition.
OnEvent(src, h, res, stg, rd) ==
    \E r \in {res} :
       \E t \in {IF r.raises = "ok" /\ r.next \in ProtocolState
                 THEN on_transition(state, r.next, r.pd, r.promptbuf, armed,
                                    rd)
                 ELSE [state |-> state, pd |-> r.pd,
                       promptbuf |-> r.promptbuf, armed |-> armed,
                       wire |-> <<>>, raises |-> r.raises,
                       config_change |-> HandlerNotified(h, r),
                       waited |-> NoWait]} :
          Returns(src, h, stg, r.promptbuf, r.wire, HandlerWaited(h, r), t,
                  IF h = "_handler_get" THEN r.got ELSE NoResult)

\* an event ev for which the current state has handler h
Dispatch(ev, h) == <<state, ev, h>> \in Handlers

\* no read of the user configuration happens
NoRead == [reads |-> <<>>, visited |-> {}]

\* the reads to choose from, out of choices, when the handler did res: a
\* read happens when the state returned is COMMAND
ReadsIn(res, choices) ==
    IF res.raises = "ok" /\ res.next = "COMMAND" THEN choices
    ELSE {NoRead}

ReadsFor(res) == ReadsIn(res, ReadChoices)

\* the bytes an exchange leaves in the prompt buffer: the awaited prompt
\* when it arrived (a command given no expected prompt is answered by the
\* ack)
ReplyBytes(en) ==
    IF en.reply = "Confirm:" THEN CONFIRMATION
    ELSE IF en.reply \in {"ACK", "prompt"} THEN Z_ACK
    ELSE <<>>

\* A handler that is a fixed script of exchanges: it ends as e, leaves the
\* reply of its last exchange in the buffer and returns next at its end.
ScriptResult(script, e, next) ==
    LET w == Run(script, e)
    IN [next |-> IF e.n = 0 THEN next ELSE "None", raises |-> e.how,
        wire |-> w,
        promptbuf |-> IF w = <<>> THEN promptbuf ELSE ReplyBytes(w[Len(w)]),
        pd |-> param_dict]

----------------------------------------------------------------------------
(* The handlers.                                                           *)

\* the soft break and its confirmation as _handler_acquire_status sends it
acquire_status_break ==
    <<send("@@@@@@"), sleep, do_cmd_resp("K1W%!Q", "prompt"), sleep,
      do_cmd_resp("MC", "ACK")>>

\* _handler_acquire_status, entered in state st: the break when st is not
\* COMMAND, the three status reads, the break again when st is COMMAND
acquire_status(st) ==
    (IF st # "COMMAND" THEN acquire_status_break ELSE <<>>) \o
    <<do_cmd_resp("BV", "prompt"), do_cmd_resp("RC", "prompt"),
      do_cmd_resp("GP", "prompt")>> \o
    (IF st = "COMMAND" THEN acquire_status_break ELSE <<>>)

\* _clock_sync: one exchange of the set-clock command
clock_sync == <<do_cmd_resp("SC", "prompt")>>

\* Variant of command_start_autosample that sends the start command before
\* the clock is synchronised.  C8 does not hold of it.
command_start_autosample_start_first ==
    <<do_cmd_resp("ST", "ACK")>> \o clock_sync

\* _handler_command_start_autosample: the CLOCK_SYNC event is handled by
\* _handler_command_clock_sync, then the start command is sent
command_start_autosample == clock_sync \o <<do_cmd_resp("ST", "ACK")>>

\* Variant of autosample_stop_autosample that does not send the
\* confirmation command.  C10 does not hold of it.
autosample_stop_autosample_unconfirmed ==
    <<send("@@@@@@"), sleep, do_cmd_resp("K1W%!Q", "Confirm:"), sleep>>

\* _handler_autosample_stop_autosample
autosample_stop_autosample ==
    <<send("@@@@@@"), sleep, do_cmd_resp("K1W%!Q", "Confirm:"), sleep,
      do_cmd_resp("MC", "ACK")>>

\* _handler_autosample_clock_sync
autosample_clock_sync ==
    <<send("@@@@@@"), sleep, do_cmd_resp("K1W%!Q", "Confirm:"),
      do_cmd_resp("MC", "ACK")>> \o clock_sync \o
    <<send("@@@@@@"), sleep, do_cmd_resp("K1W%!Q", "prompt")>>

\* _handler_command_execute_reset
command_execute_reset == <<do_cmd_resp("PD", "ACK")>>

\* _handler_command_acquire_sample
command_acquire_sample == <<do_cmd_resp("AD", "ACK")>>

\* _handler_command_set_configuration
command_set_configuration == <<do_cmd_resp("CC", "ACK")>>

\* the script handlers: <<handler, script, state returned at the end>>
script_of(h, st) ==
    IF h = "_handler_acquire_status" THEN acquire_status(st)
    ELSE IF h = "_handler_command_clock_sync" THEN clock_sync
    ELSE IF h = "_handler_command_start_autosample"
        THEN command_start_autosample
    ELSE IF h = "_handler_autosample_stop_autosample"
        THEN autosample_stop_autosample
    ELSE IF h = "_handler_autosample_clock_sync" THEN autosample_clock_sync
    ELSE IF h = "_handler_command_execute_reset" THEN command_execute_reset
    ELSE IF h = "_handler_command_acquire_sample" THEN command_acquire_sample
    ELSE command_set_configuration

\* Variant of next_of in which the reset handler returns UNKNOWN.  C11 does
\* not hold of it.
next_of_reset_unknown(h) ==
    IF h = "_handler_command_start_autosample" THEN "AUTOSAMPLE"
    ELSE IF h = "_handler_autosample_stop_autosample" THEN "COMMAND"
    ELSE IF h = "_handler_command_start_direct" THEN "DIRECT_ACCESS"
    ELSE IF h = "_handler_command_execute_reset" THEN "UNKNOWN"
    ELSE "None"

\* the state each handler returns at its end
next_of(h) ==
    IF h = "_handler_command_start_autosample" THEN "AUTOSAMPLE"
    ELSE IF h = "_handler_autosample_stop_autosample" THEN "COMMAND"
    ELSE IF h = "_handler_command_start_direct" THEN "DIRECT_ACCESS"
    ELSE "None"

\* what _handler_command_set writes once the block is built: CC, then the
\* block; the ack of the block arrives when acked
command_set_written(acked) ==
    <<Entry("CC", "-"), Entry("block", IF acked THEN "ACK" ELSE "timeout")>>

\* the end of _handler_command_set once the ack has arrived: u is what
\* _update_params did
command_set_end(u) ==
    [next |-> "None", raises |-> u.raises,
     wire |-> command_set_written(TRUE) \o u.wire,
     promptbuf |-> u.promptbuf, pd |-> u.pd,
     config_change |-> u.config_change, waited |-> u.waited]

\* Variant of command_set_staged that writes CC before it looks at what the
\* staging loop raised.  C2 does not hold of it.
command_set_staged_write_first(staged, live, buf, acked, rd) ==
    IF staged # "ok"
    THEN [next |-> "None", raises |-> "InstrumentParameterException",
          wire |-> <<Entry("CC", "-")>>, promptbuf |-> buf, pd |-> live,
          config_change |-> FALSE, waited |-> NoWait]
    ELSE IF create_set_output_raises(live) # "ok"
    THEN [next |-> "None", raises |-> create_set_output_raises(live),
          wire |-> <<Entry("CC", "-")>>, promptbuf |-> buf, pd |-> live,
          config_change |-> FALSE, waited |-> NoWait]
    ELSE IF ~acked
    THEN [next |-> "None", raises |-> "InstrumentTimeoutException",
          wire |-> command_set_written(FALSE), promptbuf |-> <<>>,
          pd |-> live, config_change |-> FALSE, waited |-> NoWait]
    ELSE command_set_end(update_params("COMMAND", live, <<>>, rd))

\* _handler_command_set from the end of the staging loop, which raised
\* staged ("ok": it did not) and left the registry live
command_set_staged(staged, live, buf, acked, rd) ==
    IF staged # "ok"
    THEN [next |-> "None", raises |-> "InstrumentParameterException",
          wire |-> <<>>, promptbuf |-> buf, pd |-> live,
          config_change |-> FALSE, waited |-> NoWait]
    ELSE IF create_set_output_raises(live) # "ok"
    THEN [next |-> "None", raises |-> create_set_output_raises(live),
          wire |-> <<>>, promptbuf |-> buf, pd |-> live,
          config_change |-> FALSE, waited |-> NoWait]
    ELSE IF ~acked
    THEN [next |-> "None", raises |-> "InstrumentTimeoutException",
          wire |-> command_set_written(FALSE), promptbuf |-> <<>>,
          pd |-> live, config_change |-> FALSE, waited |-> NoWait]
    ELSE command_set_end(update_params("COMMAND", live, <<>>, rd))

\* _handler_command_set: the staging loop on the shallow copy of pd did
\* staged; then _create_set_output, the write of CC and of the block, the
\* wait for the ack, _update_params
command_set(pd, buf, staged, acked, rd) ==
    command_set_staged(staged.raises, LiveAfterStaging(pd, staged.pd), buf,
                       acked, rd)

----------------------------------------------------------------------------
(* Inputs.                                                                 *)

\* names given to Set and Get: a read-write and a read-only word parameter,
\* the two engineering parameters and a name that is not registered
SetNames ==
    {"TransmitPulseLength", "NumberPings", "ClockSyncInterval",
     "AcquireStatusInterval", "NoSuchParameter"}

Pair(n, v) == [name |-> n, value |-> v]

\* the name/value pairs given to Set: an int for the read-write word
\* parameter, an int and a str for the read-only one, a str for the
\* engineering parameters
Pairs ==
    {Pair("TransmitPulseLength", IntV(5)),
     Pair("NumberPings", IntV(5)),
     Pair("NumberPings", StrV("5")),
     Pair("ClockSyncInterval", StrV("00:00:10")),
     Pair("AcquireStatusInterval", StrV("00:00:10")),
     Pair("NoSuchParameter", IntV(5))}

\* params_to_set.iteritems(): the pairs of a dict, in any order; a dict
\* holds a name once
BatchesOf(pairs, n) ==
    UNION {{b \in [1..m -> pairs] :
              \A x \in 1..m, y \in 1..m : x # y => b[x].name # b[y].name} :
           m \in 0..n}

\* the batches of the registry specification
Batches == BatchesOf(Pairs, MaxBatch)

\* the batches of the protocol specification: no pair, or one pair that is
\* accepted or refused as read-only
EventBatches ==
    BatchesOf({p \in Pairs : set_from_value_raises(p.name, p.value)
                                \in {"ok", "ReadOnlyException"}}, 1)

\* the probe replies of the protocol specification: one of each outcome of
\* Discover
EventProbeSeqs ==
    {<<ProbeReply(b, 1)>> :
        b \in {<<>>, COMMAND_MODE, CONFIRMATION, MODE_MEASUREMENT,
               MODE_COMMAND, MODE_DATA_RETRIEVAL}}

\* What Get is given as args[0]: DriverParameter.ALL, the list that holds
\* it, a list of names (none, each name of SetNames, a name with an
\* unregistered one after it, a name with a spare, the same name twice), a
\* name that is not in a list, or nothing.
GetParams ==
    {[form |-> "ALL", keys |-> <<>>], [form |-> "[ALL]", keys |-> <<>>],
     [form |-> "str", keys |-> <<"NumberPings">>],
     [form |-> "none", keys |-> <<>>]}
    \cup {[form |-> "list", keys |-> keys] :
             keys \in {<<>>} \cup {<<n>> : n \in SetNames}
                      \cup {<<"TransmitPulseLength", "NoSuchParameter">>,
                            <<"NumberPings", "User1Spare">>,
                            <<"NumberPings", "NumberPings">>}}


----------------------------------------------------------------------------
(* The codec on bytes.  A Python str is a sequence of byte values.  The    *)
(* values the registry stores for the fields of the block are ints, strs,  *)
(* lists of ints and None.                                                 *)

IntB(n) == [k |-> "int", i |-> n, b |-> <<>>]
StrB(bytes) == [k |-> "str", i |-> 0, b |-> bytes]
ListB(ints) == [k |-> "list", i |-> 0, b |-> ints]
NoneB == [k |-> "none", i |-> 0, b |-> <<>>]

USER_CONFIG_LEN == 512
USER_CONFIG_SYNC_BYTES == <<165, 0, 0, 1>>
CHECK_SUM_SEED == 46476

\* "\x00" * n
Nulls(n) == [j \in 1..n |-> 0]

\* s.ljust(n, "\x00")
ljust(s, n) == IF Len(s) >= n THEN s ELSE s \o Nulls(n - Len(s))

\* the Python slice s[from:to], 0 <= from <= to
Slice(s, from, to) == SubSeq(s, from + 1, IF to > Len(s) THEN Len(s) ELSE to)

\* word_to_string: chr(value & 0xff) + chr((value & 0xff00) >> 8)
word_to_string(value) == <<value % 256, ((value \div 256) % 256)>>

\* convert_word_to_int of a word of 2 bytes (it raises SampleException on
\* any other length)
convert_word_to_int(word) == word[1] + (256 * word[2])

\* double_word_to_string: the low word, then the high word
double_word_to_string(value) ==
    word_to_string(value % 65536) \o word_to_string((value \div 65536) % 65536)

\* convert_double_word_to_int of 4 bytes (SampleException on any other
\* length)
convert_double_word_to_int(dword) ==
    convert_word_to_int(Slice(dword, 0, 2))
    + (65536 * convert_word_to_int(Slice(dword, 2, 4)))

\* convert_bytes_to_string: str(bytearray(bytes_in)).split('\x00', 1)[0]
convert_bytes_to_string(bytes_in) ==
    IF \A j \in DOMAIN bytes_in : bytes_in[j] # 0 THEN bytes_in
    ELSE SubSeq(bytes_in, 1,
                (CHOOSE j \in DOMAIN bytes_in :
                    /\ bytes_in[j] = 0
                    /\ \A m \in 1..(j - 1) : bytes_in[m] # 0) - 1)

\* int(byte.encode("hex")) is a number when both hex digits of the byte are
\* decimal digits, else int raises ValueError
hex_is_decimal(byte) == (byte \div 16) <= 9 /\ (byte % 16) <= 9

\* Variant of convert_words_to_datetime that takes the value of each byte.
convert_words_to_datetime_binary(bytes) == bytes

\* convert_words_to_datetime of 6 bytes whose hex digits are decimal: the
\* two hex digits of each byte read as a decimal number
convert_words_to_datetime(bytes) ==
    [j \in DOMAIN bytes |-> 10 * (bytes[j] \div 16) + (bytes[j] % 16)]

\* convert_datetime_to_words of ints below 100: chr(int(str(n), 16)), the
\* decimal digits of n read as hex digits
convert_datetime_to_words(int_array) ==
    [j \in DOMAIN int_array |->
        16 * (int_array[j] \div 10) + (int_array[j] % 10)]

\* convert_bytes_to_bit_field: the bytes reversed, each as its 8 bits, the
\* most significant first; a buffer of any length is taken
convert_bytes_to_bit_field(bytes) ==
    [k \in 1..(8 * Len(bytes)) |->
        (bytes[Len(bytes) - ((k - 1) \div 8)] \div (2 ^ (7 - ((k - 1) % 8))))
        % 2]

\* a conversion returned value, or raised
Returned(value) == [raises |-> "ok", output |-> value]
Raised(exception) == [raises |-> exception, output |-> <<>>]

\* The static conversions of NortekProtocolParameterDict called with a
\* buffer of any length: the checks of the length they make, and the
\* errors of int() and chr() on what is not a decimal digit or a byte.
Converted(conversion, bytes) ==
    CASE conversion = "convert_word_to_int" ->
            IF Len(bytes) # 2 THEN Raised("SampleException")
            ELSE Returned(convert_word_to_int(bytes))
      [] conversion = "convert_double_word_to_int" ->
            IF Len(bytes) # 4 THEN Raised("SampleException")
            ELSE Returned(convert_double_word_to_int(bytes))
      [] conversion = "convert_words_to_datetime" ->
            IF Len(bytes) # 6 THEN Raised("SampleException")
            ELSE IF \E j \in DOMAIN bytes : ~hex_is_decimal(bytes[j])
            THEN Raised("ValueError")
            ELSE Returned(convert_words_to_datetime(bytes))
      [] conversion = "convert_datetime_to_words" ->
            IF Len(bytes) # 6 THEN Raised("SampleException")
            ELSE IF \E j \in DOMAIN bytes : bytes[j] >= 100
            THEN Raised("ValueError")
            ELSE Returned(convert_datetime_to_words(bytes))
      [] conversion = "convert_bytes_to_bit_field" ->
            Returned(convert_bytes_to_bit_field(bytes))
      [] conversion = "convert_bytes_to_string" ->
            Returned(convert_bytes_to_string(bytes))

\* the conversions
Conversions ==
    {"convert_word_to_int", "convert_double_word_to_int",
     "convert_words_to_datetime", "convert_datetime_to_words",
     "convert_bytes_to_bit_field", "convert_bytes_to_string"}

\* The buffers the conversions are given: every buffer of up to
\* MaxBufferLen bytes 0x15 and 0x1a, and every buffer of 6 bytes out of
\* 0x00, 0x05, 0x15 and 0x99.
ConvertBuffers ==
    UNION {[1..n -> {21, 26}] : n \in 0..MaxBufferLen}
    \cup [1..6 -> {0, 5, 21, 153}]

\* the character of the base64 alphabet for a sextet: A-Z, a-z, 0-9, +, /
B64Char(n) ==
    IF n < 26 THEN 65 + n
    ELSE IF n < 52 THEN 71 + n
    ELSE IF n < 62 THEN n - 4
    ELSE IF n = 62 THEN 43
    ELSE 47

\* the sextet of a character of the base64 alphabet
B64Sextet(c) == CHOOSE n \in 0..63 : B64Char(n) = c

\* the padding character '='
B64Pad == 61

\* the byte at position n of s, from 1 on; 0 past the end
ByteAt(s, n) == IF n <= Len(s) THEN s[n] ELSE 0

\* the character at position p (0 to 3) of the group base64.b64encode
\* makes of the bytes b1, b2, b3, present of them being there
B64GroupChar(p, present, b1, b2, b3) ==
    IF p = 0 THEN B64Char(b1 \div 4)
    ELSE IF p = 1 THEN B64Char(((b1 % 4) * 16) + (b2 \div 16))
    ELSE IF p = 2
    THEN (IF present < 2 THEN B64Pad
          ELSE B64Char(((b2 % 16) * 4) + (b3 \div 64)))
    ELSE IF present < 3 THEN B64Pad
    ELSE B64Char(b3 % 64)

\* base64.b64encode: every 3 bytes give a group of 4 characters, a rest of
\* 1 or 2 bytes gives a padded group
b64encode(s) ==
    [j \in 1..(4 * ((Len(s) + 2) \div 3)) |->
        B64GroupChar((j - 1) % 4, Len(s) - (3 * ((j - 1) \div 4)),
                     ByteAt(s, (3 * ((j - 1) \div 4)) + 1),
                     ByteAt(s, (3 * ((j - 1) \div 4)) + 2),
                     ByteAt(s, (3 * ((j - 1) \div 4)) + 3))]

\* base64.b64decode raises TypeError (incorrect padding) when the text is
\* not made of groups of 4 characters
b64decode_raises(t) == (Len(t) % 4) # 0

\* the sextet a character of a group stands for, 0 for the padding
B64Value(c) == IF c = B64Pad THEN 0 ELSE B64Sextet(c)

\* the byte at position p (0 to 2) of the bytes base64.b64decode makes of
\* the group of the sextets a, b, c, d
B64GroupByte(p, a, b, c, d) ==
    IF p = 0 THEN (a * 4) + (b \div 16)
    ELSE IF p = 1 THEN ((b % 16) * 16) + (c \div 4)
    ELSE ((c % 4) * 64) + d

\* how many padding characters end the text
B64Padding(t) ==
    IF Len(t) < 4 THEN 0
    ELSE IF t[Len(t) - 1] = B64Pad THEN 2
    ELSE IF t[Len(t)] = B64Pad THEN 1
    ELSE 0

\* base64.b64decode of a text of characters of the alphabet, the last group
\* padded or not: every full group of 4 characters gives 3 bytes
b64decode(t) ==
    [j \in 1..((3 * (Len(t) \div 4)) - B64Padding(t)) |->
        B64GroupByte((j - 1) % 3,
                     B64Value(t[(4 * ((j - 1) \div 3)) + 1]),
                     B64Value(t[(4 * ((j - 1) \div 3)) + 2]),
                     B64Value(t[(4 * ((j - 1) \div 3)) + 3]),
                     B64Value(t[(4 * ((j - 1) \div 3)) + 4]))]

\* the sum of the words of input[from:to], to - from even: the sum of the
\* words of its two halves
RECURSIVE word_sum(_, _, _)
word_sum(input, from, to) ==
    IF to - from < 2 THEN 0
    ELSE IF to - from = 2
    THEN convert_word_to_int(Slice(input, from, from + 2))
    ELSE word_sum(input, from, from + (2 * ((to - from) \div 4)))
         + word_sum(input, from + (2 * ((to - from) \div 4)), to)

\* The loop of both checksum computations, from word_index to stop in steps
\* of 2: checksum = (checksum + convert_word_to_int(word)) % 0x10000.  It
\* leaves the checksum it started from plus the sum of the words, modulo
\* 0x10000.
checksum_loop(input, word_index, stop, checksum) ==
    (checksum + word_sum(input, word_index, stop)) % 65536

\* Variant of calculate_checksum that sums the trailing word too.  C17 does
\* not hold of it.
calculate_checksum_whole(input, length) ==
    checksum_loop(input, 0, length, CHECK_SUM_SEED)

\* calculate_checksum(input, length): the words of input[0:length - 2]
calculate_checksum(input, length) ==
    checksum_loop(input, 0, length - 2, CHECK_SUM_SEED)

\* _check_configuration(input, sync, length)
check_configuration(input, sync, length) ==
    /\ Len(input) = length + 2
    /\ Slice(input, length, length + 2) = Z_ACK
    /\ Slice(input, 0, 4) = sync
    /\ convert_word_to_int(Slice(input, length - 2, length))
          = calculate_checksum(input, length)

\* the regex ^.{off}(.{len}).* of a field, compiled with re.DOTALL, matches
\* every input of at least off + len bytes
regex_matches(name, input) == Len(input) >= Desc(name).off + Desc(name).len

\* match.group(1)
Group(name, input) ==
    Slice(input, Desc(name).off, Desc(name).off + Desc(name).len)

\* what f_getval of the field raises on the group g: the decoders check the
\* width of the group, the datetime decoder reads hex digits as a number
GetvalRaises(f_getval, g) ==
    IF f_getval = "convert_word_to_int" /\ Len(g) # 2
    THEN "SampleException"
    ELSE IF f_getval = "convert_double_word_to_int" /\ Len(g) # 4
    THEN "SampleException"
    ELSE IF f_getval = "convert_words_to_datetime" /\ Len(g) # 6
    THEN "SampleException"
    ELSE IF f_getval = "convert_words_to_datetime"
            /\ \E j \in DOMAIN g : ~hex_is_decimal(g[j])
    THEN "ValueError"
    ELSE "ok"

\* f_getval of the field applied to the group g
Getval(f_getval, g) ==
    IF f_getval = "convert_word_to_int" THEN IntB(convert_word_to_int(g))
    ELSE IF f_getval = "convert_double_word_to_int"
    THEN IntB(convert_double_word_to_int(g))
    ELSE IF f_getval = "convert_words_to_datetime"
    THEN ListB(convert_words_to_datetime(g))
    ELSE IF f_getval = "convert_bytes_to_string"
    THEN StrB(convert_bytes_to_string(g))
    ELSE IF f_getval = "b64encode" THEN StrB(b64encode(g))
    ELSE StrB(g)

\* the fields whose decoder raises on input
RaisingOn(input) ==
    {name \in Parameter :
        /\ regex_matches(name, input)
        /\ GetvalRaises(Desc(name).f_getval, Group(name, input)) # "ok"}

\* _param_dict.update(input) visits the parameters in the iteration order
\* of a Python dict and ends at the first decoder that raises.  The visits,
\* for the three orders of UpdateVisits: the fields updated and the field
\* whose decoder raised ("" when none did).
VisitsOn(input) ==
    IF RaisingOn(input) = {} THEN {[visited |-> Parameter, by |-> ""]}
    ELSE {[visited |-> {}, by |-> r] : r \in RaisingOn(input)}
         \cup {[visited |-> {name \in Parameter :
                               \A q \in RaisingOn(input) :
                                  ParamIndex(name) < ParamIndex(q)},
                by |-> r] :
                  r \in {q \in RaisingOn(input) :
                           \A p \in RaisingOn(input) :
                              ParamIndex(q) <= ParamIndex(p)}}
         \cup {[visited |-> Parameter \ RaisingOn(input), by |-> r] :
                  r \in RaisingOn(input)}

\* _param_dict.update(input) on the registry of the fields of the block:
\* NortekParameterDictVal.update of every visited field whose regex matches
\* stores the decoded value
update_bytes(pd, input, visit) ==
    [pd |-> [name \in Parameter |->
                IF name \in visit.visited /\ regex_matches(name, input)
                THEN Getval(Desc(name).f_getval, Group(name, input))
                ELSE pd[name]],
     raises |-> IF visit.by = "" THEN "ok"
                ELSE GetvalRaises(Desc(visit.by).f_getval,
                                  Group(visit.by, input))]

\* what appending the field to the output raises for the stored value v:
\* the word formatters and the str methods raise on a value of another type
FieldRaises(name, v) ==
    IF ExpectsInt(name)
    THEN (IF v.k = "int" THEN "ok" ELSE "TypeError")
    ELSE IF name \in {"Comments", "DeploymentName"}
    THEN (IF v.k = "str" THEN "ok" ELSE "AttributeError")
    ELSE IF name \in {"StageMatchFilterConstants", "VelocityAdjTable"}
    THEN (IF v.k = "str" /\ ~b64decode_raises(v.b) THEN "ok"
          ELSE "TypeError")
    ELSE IF name = "ClockDeploy"
    THEN (IF v.k \notin {"str", "list"} THEN "TypeError"
          ELSE IF Len(v.b) # 6 THEN "SampleException"
          ELSE IF v.k = "str" THEN "ValueError"
          ELSE "ok")
    ELSE IF v.k = "str" THEN "ok"
    ELSE "TypeError"

\* what _create_set_output appends to the output for the field:
\* parameters.format(name), which applies f_format to the stored value,
\* converted as the branch of the field says
Field(name, v) ==
    IF Desc(name).f_format = "word_to_string" THEN word_to_string(v.i)
    ELSE IF Desc(name).f_format = "double_word_to_string"
    THEN double_word_to_string(v.i)
    ELSE IF name = "Comments" THEN ljust(v.b, 180)
    ELSE IF name = "DeploymentName" THEN ljust(v.b, 6)
    ELSE IF name \in {"StageMatchFilterConstants", "VelocityAdjTable"}
    THEN b64decode(v.b)
    ELSE IF name = "ClockDeploy" THEN convert_datetime_to_words(v.b)
    ELSE v.b

\* for name in Parameter: the fields in the order of the block
BlockOrder == [n \in 1..Cardinality(Parameter) |-> ParamTable[n].name]

\* the first field, in the order of the block, that raises; 0 when none does
FirstRaising(pd) ==
    IF \A n \in DOMAIN BlockOrder :
          FieldRaises(BlockOrder[n], pd[BlockOrder[n]]) = "ok"
    THEN 0
    ELSE CHOOSE n \in DOMAIN BlockOrder :
            /\ FieldRaises(BlockOrder[n], pd[BlockOrder[n]]) # "ok"
            /\ \A m \in 1..(n - 1) :
                  FieldRaises(BlockOrder[m], pd[BlockOrder[m]]) = "ok"

\* the loop of _create_set_output over the fields, from field n on
RECURSIVE set_output_loop(_, _, _)
set_output_loop(pd, n, output) ==
    IF n > Len(BlockOrder) THEN output
    ELSE set_output_loop(pd, n + 1,
                         output \o Field(BlockOrder[n], pd[BlockOrder[n]]))

\* the end of _create_set_output: the checksum of all the words of output
\* is appended; convert_word_to_int raises on the last byte of an output of
\* odd length
set_output_end(output) ==
    IF (Len(output) % 2) # 0
    THEN [output |-> <<>>, raises |-> "SampleException"]
    ELSE [output |-> output \o word_to_string(
                        checksum_loop(output, 0, Len(output),
                                      CHECK_SUM_SEED)),
          raises |-> "ok"]

\* _create_set_output(parameters)
create_set_output(pd) ==
    IF FirstRaising(pd) # 0
    THEN [output |-> <<>>,
          raises |-> FieldRaises(BlockOrder[FirstRaising(pd)],
                                 pd[BlockOrder[FirstRaising(pd)]])]
    ELSE set_output_end(set_output_loop(pd, 1, <<165, 0, 0, 1>>))

----------------------------------------------------------------------------
(* The registry of the fields of the block and the blocks it is fed.       *)

\* the bytes of one field of a block
FieldBytes(name, bytes) == [name |-> name, bytes |-> bytes]

\* the first USER_CONFIG_LEN - 2 bytes of a block: the sync bytes, then the
\* given fields at their offsets, null bytes elsewhere
Body(fields) ==
    [j \in 1..(USER_CONFIG_LEN - 2) |->
        IF j <= 4 THEN USER_CONFIG_SYNC_BYTES[j]
        ELSE IF \E f \in fields :
                   Desc(f.name).off < j
                   /\ j <= Desc(f.name).off + Len(f.bytes)
        THEN (CHOOSE f \in fields :
                 Desc(f.name).off < j
                 /\ j <= Desc(f.name).off + Len(f.bytes)).bytes[
                    j - Desc((CHOOSE f \in fields :
                                 Desc(f.name).off < j
                                 /\ j <= Desc(f.name).off
                                         + Len(f.bytes)).name).off]
        ELSE 0]

\* the body followed by the checksum the instrument computes for it
Checked(body) ==
    body \o word_to_string(checksum_loop(body, 0, Len(body), CHECK_SUM_SEED))

\* the fields of the blocks the instrument sends: the values of the
\* reference configuration; every kind of field set, the clock in BCD; a
\* name and a comment with bytes after the first null; a clock that is not
\* BCD
BlockFields ==
    {{FieldBytes("TransmitPulseLength", <<2, 0>>),
      FieldBytes("AvgInterval", <<32, 0>>),
      FieldBytes("Mode", <<96, 0>>)},
     {FieldBytes("BlankingDistance", <<255, 255>>),
      FieldBytes("A1_1Spare", <<7, 9>>),
      FieldBytes("DeploymentName", <<97, 98, 99>>),
      FieldBytes("ClockDeploy", <<18, 52, 86, 9, 16, 153>>),
      FieldBytes("DiagnosticInterval", <<1, 2, 3, 4>>),
      FieldBytes("Mode", <<1, 2>>),
      FieldBytes("VelocityAdjTable", <<255, 254, 253, 1>>),
      FieldBytes("Comments", <<104, 105>>),
      FieldBytes("User4Spare", <<1, 2, 3>>),
      FieldBytes("StageMatchFilterConstants",
                 <<9, 8, 7, 6, 5, 4, 3, 2, 1, 0, 1, 2, 3, 4, 5, 200>>)},
     {FieldBytes("DeploymentName", <<97, 0, 98>>),
      FieldBytes("Mode", <<96, 0>>),
      FieldBytes("Comments", <<0, 120>>)},
     {FieldBytes("ClockDeploy", <<26, 0, 0, 0, 0, 0>>),
      FieldBytes("Mode", <<96, 0>>)}}

\* the blocks that pass _check_configuration, as they arrive: with the ack
ValidBlocks == {Checked(Body(fields)) \o Z_ACK : fields \in BlockFields}

\* the block of the reference configuration
ReferenceBlock ==
    Checked(Body({FieldBytes("TransmitPulseLength", <<2, 0>>),
                  FieldBytes("AvgInterval", <<32, 0>>),
                  FieldBytes("Mode", <<96, 0>>)}))

\* The binary configurations given to set_init_params: a valid block
\* without the ack, with the ack, with the ack twice; one cut short; one
\* with another checksum; one with another first sync byte and the
\* checksum of its bytes; the empty one.
RawConfigs ==
    {ReferenceBlock,
     ReferenceBlock \o Z_ACK,
     ReferenceBlock \o Z_ACK \o Z_ACK,
     Slice(ReferenceBlock, 0, USER_CONFIG_LEN - 2),
     Slice(ReferenceBlock, 0, USER_CONFIG_LEN - 2) \o <<1, 2>>,
     Checked([Slice(ReferenceBlock, 0, USER_CONFIG_LEN - 2)
                 EXCEPT ![1] = 164]),
     <<>>}

\* The values of DriverParameter.ALL: the base64 text of each binary
\* configuration, and a text that lost its last character.
RawConfigTexts ==
    {b64encode(raw) : raw \in RawConfigs}
    \cup {SubSeq(b64encode(ReferenceBlock), 1,
                 Len(b64encode(ReferenceBlock)) - 1)}

\* the registry _build_param_dict leaves, for the fields of the block
InitBytesDict ==
    [name \in Parameter |->
        IF InitParamDict[name].k = "int" THEN IntB(InitParamDict[name].i)
        ELSE NoneB]

\* the read-write field set_from_value is called for, and the values it is
\* given: one that fits a word and one that does not
CodecSetNames == {"TransmitPulseLength"}
CodecSetValues == {IntB(300), IntB(70000)}

\* the end of set_init_params for the binary configuration with the ack
\* appended: the length, then _check_configuration, then the update
set_init_params_binary(pd, binary_config, visit) ==
    IF Len(binary_config) = USER_CONFIG_LEN + 2
    THEN IF check_configuration(binary_config, USER_CONFIG_SYNC_BYTES,
                                USER_CONFIG_LEN)
         THEN [pd |-> update_bytes(pd, binary_config, visit).pd,
               raises |-> update_bytes(pd, binary_config, visit).raises,
               message |-> "", updated |-> TRUE]
         ELSE [pd |-> pd, raises |-> "InstrumentParameterException",
               message |-> "bad configuration", updated |-> FALSE]
    ELSE [pd |-> pd, raises |-> "InstrumentParameterException",
          message |-> "configuration not the correct length",
          updated |-> FALSE]

\* Variant of set_init_params that appends the ack only to a configuration
\* that does not end with it.  C16 does not hold of it.
set_init_params_optional_ack(pd, text, visit) ==
    IF b64decode_raises(text)
    THEN [pd |-> pd, raises |-> "TypeError", message |-> "",
          updated |-> FALSE]
    ELSE IF Len(b64decode(text)) = USER_CONFIG_LEN + 2
    THEN set_init_params_binary(pd, b64decode(text), visit)
    ELSE set_init_params_binary(pd, b64decode(text) \o Z_ACK, visit)

\* set_init_params(config), config holding the text under
\* DriverParameter.ALL: the text is decoded, the ack is appended
set_init_params(pd, text, visit) ==
    IF b64decode_raises(text)
    THEN [pd |-> pd, raises |-> "TypeError", message |-> "",
          updated |-> FALSE]
    ELSE set_init_params_binary(pd, b64decode(text) \o Z_ACK, visit)

----------------------------------------------------------------------------
(* The chunker.  chunker_sieve_function is given the bytes received so far *)
(* and returns the ranges (start, end) of the samples it finds in them:    *)
(* first those of the structures with sync bytes, structure by structure,  *)
(* then those of the registered responses.                                 *)

HW_CONFIG_LEN == 48
HW_CONFIG_SYNC_BYTES == <<165, 5, 24, 0>>
HEAD_CONFIG_LEN == 224
HEAD_CONFIG_SYNC_BYTES == <<165, 4, 112, 0>>
ID_LEN == 14

\* a structure: its sync bytes and its length
Struct(structure_sync, structure_len) ==
    [sync |-> structure_sync, len |-> structure_len]

NORTEK_COMMON_SAMPLE_STRUCTS ==
    <<Struct(USER_CONFIG_SYNC_BYTES, USER_CONFIG_LEN),
      Struct(HW_CONFIG_SYNC_BYTES, HW_CONFIG_LEN),
      Struct(HEAD_CONFIG_SYNC_BYTES, HEAD_CONFIG_LEN)>>

\* the offsets of raw_data at which sub occurs
Occurrences(raw_data, sub) ==
    {s \in 0..(Len(raw_data) - Len(sub)) :
        \A j \in 1..Len(sub) : raw_data[s + j] = sub[j]}

\* raw_data.find(sub, index): the lowest offset from index on at which sub
\* occurs, -1 when there is none
find(raw_data, sub, index) ==
    IF \E s \in index..(Len(raw_data) - Len(sub)) :
          \A j \in 1..Len(sub) : raw_data[s + j] = sub[j]
    THEN CHOOSE s \in index..(Len(raw_data) - Len(sub)) :
            /\ \A j \in 1..Len(sub) : raw_data[s + j] = sub[j]
            /\ \A t \in index..(s - 1) :
                  \E j \in 1..Len(sub) : raw_data[t + j] # sub[j]
    ELSE -1

\* Variant of the range appended for a structure that takes the length for
\* the end.  C21 does not hold of it.
sample_range_to_length(start, structure_len) == <<start, structure_len>>

\* the range appended for a structure found at start
sample_range(start, structure_len) == <<start, start + structure_len>>

\* the checksum the structure at start carries is the one computed for it
checksum_matches(raw_data, start, structure_len) ==
    convert_word_to_int(Slice(raw_data, start + structure_len - 2,
                              start + structure_len))
    = calculate_checksum(Slice(raw_data, start, start + structure_len),
                         structure_len)

\* the while loop of one structure, from index on: every occurrence of the
\* sync bytes found moves index by the length of the structure
RECURSIVE sieve_while(_, _, _, _)
sieve_while(raw_data, struct, index, return_list) ==
    LET start == find(raw_data, struct.sync, index)
    IN  IF start = -1 THEN return_list
        ELSE sieve_while(
                 raw_data, struct, start + struct.len,
                 IF start + struct.len <= Len(raw_data)
                    /\ checksum_matches(raw_data, start, struct.len)
                 THEN Append(return_list, sample_range(start, struct.len))
                 ELSE return_list)

\* the for loop over the structures, from the i-th on
RECURSIVE sieve_structs(_, _, _, _)
sieve_structs(raw_data, structs, i, return_list) ==
    IF i > Len(structs) THEN return_list
    ELSE sieve_structs(raw_data, structs, i + 1,
                       sieve_while(raw_data, structs[i], 0, return_list))

\* a list.remove(x) that removes nothing
remove_nothing(list, x) == list

\* list.remove(x): the list without the first element equal to x
remove(list, x) ==
    LET first == CHOOSE k \in DOMAIN list :
                    list[k] = x /\ \A j \in 1..(k - 1) : list[j] # x
    IN  SubSeq(list, 1, first - 1) \o SubSeq(list, first + 1, Len(list))

\* the for loop over NORTEK_COMMON_DYNAMIC_SAMPLE_STRUCTS, the iterator at
\* position i of the list: a response found is appended and removed from
\* the list the loop iterates, the iterator moves on by one all the same
RECURSIVE sieve_dynamic(_, _, _, _)
sieve_dynamic(raw_data, dynamic_structs, i, return_list) ==
    IF i > Len(dynamic_structs)
    THEN [return_list |-> return_list, dynamic_structs |-> dynamic_structs]
    ELSE IF find(raw_data, dynamic_structs[i].sync, 0) # -1
    THEN sieve_dynamic(
             raw_data, remove(dynamic_structs, dynamic_structs[i]), i + 1,
             Append(return_list,
                    <<find(raw_data, dynamic_structs[i].sync, 0),
                      find(raw_data, dynamic_structs[i].sync, 0)
                      + Len(dynamic_structs[i].sync)>>))
    ELSE sieve_dynamic(raw_data, dynamic_structs, i + 1, return_list)

\* chunker_sieve_function(raw_data, add_structs), with the list
\* NORTEK_COMMON_DYNAMIC_SAMPLE_STRUCTS it finds: the ranges it returns and
\* the list it leaves
chunker_sieve_function(raw_data, add_structs, dynamic_structs) ==
    sieve_dynamic(raw_data, dynamic_structs, 1,
                  sieve_structs(raw_data,
                                add_structs \o NORTEK_COMMON_SAMPLE_STRUCTS,
                                1, <<>>))

\* _build_parsed_values of the particle of a hardware configuration: the
\* quality flag of the particle built from raw_data
hw_quality_flag(raw_data) ==
    IF convert_word_to_int(Slice(raw_data, HW_CONFIG_LEN - 2, HW_CONFIG_LEN))
       # calculate_checksum(raw_data, Len(raw_data))
    THEN "CHECKSUM_FAILED"
    ELSE "ok"

\* input_stream[-2:]
LastTwo(input_stream) ==
    SubSeq(input_stream,
           IF Len(input_stream) > 2 THEN Len(input_stream) - 1 ELSE 1,
           Len(input_stream))

\* the check of the length the three decoders start with: a buffer that
\* ends in the ack has the length of the configuration and 2, another one
\* the length of the configuration, else SampleException
config_len_raises(input_stream, config_len) ==
    IF LastTwo(input_stream) = Z_ACK
    THEN IF Len(input_stream) # config_len + 2 THEN "SampleException"
         ELSE "ok"
    ELSE IF Len(input_stream) # config_len THEN "SampleException"
         ELSE "ok"

\* hw_config_to_dict(input_stream): what it raises, "ok" when it returns
\* the dictionary (the conversions are given slices of their length)
hw_config_to_dict(input_stream) ==
    config_len_raises(input_stream, HW_CONFIG_LEN)

\* head_config_to_dict(input_stream)
head_config_to_dict(input_stream) ==
    config_len_raises(input_stream, HEAD_CONFIG_LEN)

\* user_config_to_dict(input_stream): after the check of the length,
\* convert_words_to_datetime(input_stream[48:54]) raises ValueError on a
\* byte that is not BCD
user_config_to_dict(input_stream) ==
    IF config_len_raises(input_stream, USER_CONFIG_LEN) # "ok"
    THEN "SampleException"
    ELSE Converted("convert_words_to_datetime",
                   Slice(input_stream, 48, 54)).raises

\* the particles of the configurations, each with its decoder and the
\* length of its configuration
ConfigParticles ==
    {[particle |-> "NortekHardwareConfigDataParticle",
      decoder |-> "hw_config_to_dict", len |-> HW_CONFIG_LEN],
     [particle |-> "NortekHeadConfigDataParticle",
      decoder |-> "head_config_to_dict", len |-> HEAD_CONFIG_LEN],
     [particle |-> "NortekUserConfigDataParticle",
      decoder |-> "user_config_to_dict", len |-> USER_CONFIG_LEN]}

\* the decoder of the particle applied to input_stream
config_to_dict(p, input_stream) ==
    CASE p.decoder = "hw_config_to_dict" -> hw_config_to_dict(input_stream)
      [] p.decoder = "head_config_to_dict" ->
            head_config_to_dict(input_stream)
      [] p.decoder = "user_config_to_dict" ->
            user_config_to_dict(input_stream)

\* the end of _build_parsed_values of the three particles: the checksum
\* the dictionary holds, the word at the end of the configuration, is
\* compared with calculate_checksum(self.raw_data), computed over the
\* length of raw_data
quality_flag(raw_data, config_len) ==
    IF convert_word_to_int(Slice(raw_data, config_len - 2, config_len))
       # calculate_checksum(raw_data, Len(raw_data))
    THEN "CHECKSUM_FAILED"
    ELSE "ok"

\* What the instrument emits is a sequence of parts: a sample with the
\* checksum of its bytes ("sample"), a sample with another checksum
\* ("failed"), a response to the read of the clock ("response"), or bytes
\* that are none of these ("noise").
Part(kind, bytes) == [kind |-> kind, bytes |-> bytes]

\* the bytes of the parts, in order
RECURSIVE Bytes(_)
Bytes(parts) ==
    IF parts = <<>> THEN <<>>
    ELSE Bytes(SubSeq(parts, 1, Len(parts) - 1)) \o parts[Len(parts)].bytes

\* the range the i-th part takes in the bytes of the parts
RangeOf(parts, i) ==
    <<Len(Bytes(SubSeq(parts, 1, i - 1))), Len(Bytes(SubSeq(parts, 1, i)))>>

\* a stream: its bytes and, in the order of the bytes, the ranges of its
\* samples, of its failed samples and of its responses
Emitted(parts) ==
    [bytes |-> Bytes(parts),
     samples |-> {RangeOf(parts, i) :
                     i \in {k \in DOMAIN parts : parts[k].kind = "sample"}},
     failed |-> {RangeOf(parts, i) :
                    i \in {k \in DOMAIN parts : parts[k].kind = "failed"}},
     responses |-> {RangeOf(parts, i) :
                       i \in {k \in DOMAIN parts :
                                 parts[k].kind = "response"}}]

\* a hardware configuration with the given bytes after the sync bytes, null
\* bytes up to the checksum
HwSample(payload) ==
    Checked(HW_CONFIG_SYNC_BYTES \o payload
            \o Nulls(HW_CONFIG_LEN - 6 - Len(payload)))

\* a head configuration
HeadSample ==
    Checked(HEAD_CONFIG_SYNC_BYTES \o <<3, 4>> \o Nulls(HEAD_CONFIG_LEN - 8))

\* the frame with another word at its end
WithTrailer(frame, word) == SubSeq(frame, 1, Len(frame) - 2) \o word

\* What the decoders and the particles are given for a configuration of
\* which frame is a valid one: the frame, the frame with another checksum
\* and the frame with the bytes of the ack as its checksum, each alone and
\* followed by the ack; the frame cut short, followed by one byte of the
\* ack, and followed by the ack twice.
FramesOf(frame) ==
    {frame, frame \o Z_ACK,
     WithTrailer(frame, <<1, 2>>), WithTrailer(frame, <<1, 2>>) \o Z_ACK,
     WithTrailer(frame, Z_ACK), WithTrailer(frame, Z_ACK) \o Z_ACK,
     SubSeq(frame, 1, Len(frame) - 2), frame \o <<6>>,
     frame \o Z_ACK \o Z_ACK}

\* The inputs of each decoder.  The hardware configurations include one
\* whose checksum is 0x0606 and one whose checksum is 0; the user
\* configurations one whose deployment clock is not BCD.
ConfigInputs(p) ==
    CASE p.decoder = "hw_config_to_dict" ->
            FramesOf(HwSample(<<1>>))
            \cup {HwSample(<<189, 74>>), HwSample(<<189, 74>>) \o Z_ACK,
                  HwSample(<<183, 68>>), HwSample(<<183, 68>>) \o Z_ACK,
                  WithTrailer(HwSample(<<183, 68>>), <<1, 2>>) \o Z_ACK}
      [] p.decoder = "head_config_to_dict" -> FramesOf(HeadSample)
      [] p.decoder = "user_config_to_dict" ->
            FramesOf(ReferenceBlock)
            \cup {Checked(Body({FieldBytes("ClockDeploy",
                                           <<26, 0, 0, 0, 0, 0>>)}))}

\* responses of the instrument to the read of the clock: six bytes of
\* packed BCD and the ack
ClockResponseA == <<18, 48, 1, 16, 20, 17, 6, 6>>
ClockResponseB == <<19, 48, 1, 16, 20, 17, 6, 6>>
ShortResponse == <<20, 48, 1, 16, 6, 6>>

\* The streams: each structure alone; the three structures, the hardware
\* configuration first; samples with bytes before, between and after them;
\* the sync bytes of a hardware configuration three bytes before a sample,
\* and fifty bytes before one; a sample with another checksum, followed by
\* a sample; a user configuration with a hardware configuration as its
\* comment; two samples in a row; the responses to the read of the clock
\* around a sample; a sample that holds the bytes of the response that
\* follows it, and a response that lost two bytes.
Streams ==
    <<Emitted(<<Part("sample", HwSample(<<1>>))>>),
      Emitted(<<Part("sample", HeadSample)>>),
      Emitted(<<Part("sample", ReferenceBlock)>>),
      Emitted(<<Part("sample", HwSample(<<1>>)),
                Part("sample", ReferenceBlock),
                Part("sample", HeadSample)>>),
      Emitted(<<Part("noise", <<1, 2, 3>>),
                Part("sample", HwSample(<<1>>)),
                Part("noise", <<165, 5>>),
                Part("sample", HwSample(<<2>>)),
                Part("noise", <<6>>)>>),
      Emitted(<<Part("noise", HW_CONFIG_SYNC_BYTES \o <<9, 9, 9>>),
                Part("sample", HwSample(<<1>>))>>),
      Emitted(<<Part("noise", HW_CONFIG_SYNC_BYTES
                              \o [j \in 1..50 |-> 9]),
                Part("sample", HwSample(<<1>>))>>),
      Emitted(<<Part("failed", HW_CONFIG_SYNC_BYTES \o Nulls(44)),
                Part("sample", HwSample(<<2>>))>>),
      Emitted(<<Part("sample",
                     Checked(Body({FieldBytes("Comments",
                                              HwSample(<<7>>))})))>>),
      Emitted(<<Part("sample", HwSample(<<1>>)),
                Part("sample", HwSample(<<1>>))>>),
      Emitted(<<Part("response", ClockResponseA),
                Part("sample", HwSample(<<1>>)),
                Part("response", ClockResponseB)>>),
      Emitted(<<Part("sample", HwSample(ClockResponseA)),
                Part("response", ClockResponseA),
                Part("response", ShortResponse)>>)>>

\* the offsets at which the bytes of a stream may be cut into deliveries:
\* every offset of a stream that is little longer than a hardware
\* configuration, every CutStep-th offset of a longer stream with the
\* offsets next to its ends
Cuts(stream) ==
    {n \in 1..Len(stream.bytes) :
        \/ Len(stream.bytes) <= HW_CONFIG_LEN + 8
        \/ n % CutStep = 0
        \/ n <= 4
        \/ n >= Len(stream.bytes) - 2}

----------------------------------------------------------------------------
(* Actions: one per handler, for the event ev delivered by src.            *)

\* _handler_unknown_discover, the probe answered by one of seqs, the read
\* of the user configuration by one of choices
DiscoverOn(src, ev, seqs, choices) ==
    /\ Dispatch(ev, "_handler_unknown_discover")
    /\ \E replies \in seqs :
          LET res == unknown_discover(param_dict, replies)
          IN \E rd \in ReadsIn(res, choices) :
                OnEvent(src, "_handler_unknown_discover", res, NoCall, rd)

\* _handler_direct_access_stop_direct calls _handler_unknown_discover and
\* returns the state it found
StopDirectOn(src, ev) ==
    /\ Dispatch(ev, "_handler_direct_access_stop_direct")
    /\ \E replies \in EventProbeSeqs :
          LET res == direct_access_stop_direct(param_dict, replies)
          IN \E rd \in ReadsFor(res) :
                OnEvent(src, "_handler_direct_access_stop_direct", res,
                        NoCall, rd)

\* the ack of the block is awaited only when the block was written
SetAcks(pd, staged) ==
    IF /\ staged.raises = "ok"
       /\ create_set_output_raises(LiveAfterStaging(pd, staged.pd)) = "ok"
    THEN BOOLEAN ELSE {FALSE}

\* _handler_command_set after the staging loop did staged
SetStaged(src, staged) ==
    \E acked \in SetAcks(param_dict, staged) :
       \E rd \in (IF acked THEN ReadChoices ELSE {NoRead}) :
          OnEvent(src, "_handler_command_set",
                  command_set(param_dict, promptbuf, staged, acked, rd),
                  staged.last, rd)

\* _handler_command_set, given one of batches
SetOn(src, ev, batches) ==
    /\ Dispatch(ev, "_handler_command_set")
    /\ \E batch \in batches : SetStaged(src, Stage(param_dict, batch))

\* Variant of _handler_get that returns every key of the registry for
\* DriverParameter.ALL.  C26 does not hold of it.
handler_get_every_key(pd, params) ==
    IF params.form \in {"none", "str"}
       \/ \E i \in DOMAIN params.keys : params.keys[i] \notin ParamNames
    THEN [raises |-> "InstrumentParameterException", result |-> <<>>]
    ELSE IF params.form \in {"ALL", "[ALL]"}
    THEN [raises |-> "ok", result |-> pd]
    ELSE [raises |-> "ok",
          result |-> [key \in {params.keys[i] : i \in DOMAIN params.keys}
                         |-> pd[key]]]

\* _handler_get(params): no args[0] raises; DriverParameter.ALL, alone or
\* in a list, gives get_config(); something that is no list raises; a list
\* gives the value of each key, a key that is not registered raises
handler_get(pd, params) ==
    IF params.form = "none"
    THEN [raises |-> "InstrumentParameterException", result |-> <<>>]
    ELSE IF params.form \in {"ALL", "[ALL]"}
    THEN [raises |-> "ok", result |-> get_config(pd)]
    ELSE IF params.form # "list"
    THEN [raises |-> "InstrumentParameterException", result |-> <<>>]
    ELSE IF \E i \in DOMAIN params.keys : params.keys[i] \notin ParamNames
    THEN [raises |-> "InstrumentParameterException", result |-> <<>>]
    ELSE [raises |-> "ok",
          result |-> [key \in {params.keys[i] : i \in DOMAIN params.keys}
                         |-> pd[key]]]

\* _handler_get given params did g: it reads the registry, writes nothing
\* and returns no next state
GetDid(src, params, g) ==
    OnEvent(src, "_handler_get",
            [next |-> "None", raises |-> g.raises, wire |-> <<>>,
             promptbuf |-> promptbuf, pd |-> param_dict,
             got |-> [params |-> params, value |-> g.result]],
            NoCall, NoRead)

\* _handler_get, given one of GetParams
GetOn(src, ev) ==
    /\ Dispatch(ev, "_handler_get")
    /\ \E params \in GetParams :
          GetDid(src, params, handler_get(param_dict, params))

\* a handler h that runs a script of exchanges
Script(src, h) ==
    \E e \in Endings(script_of(h, state)) :
       \E rd \in ReadsFor(ScriptResult(script_of(h, state), e, next_of(h))) :
          OnEvent(src, h, ScriptResult(script_of(h, state), e, next_of(h)),
                  NoCall, rd)

AcquireStatusOn(src, ev) ==
    /\ Dispatch(ev, "_handler_acquire_status")
    /\ Script(src, "_handler_acquire_status")

ClockSyncOn(src, ev) ==
    /\ Dispatch(ev, "_handler_command_clock_sync")
    /\ Script(src, "_handler_command_clock_sync")

StartAutosampleOn(src, ev) ==
    /\ Dispatch(ev, "_handler_command_start_autosample")
    /\ Script(src, "_handler_command_start_autosample")

StopAutosampleOn(src, ev) ==
    /\ Dispatch(ev, "_handler_autosample_stop_autosample")
    /\ Script(src, "_handler_autosample_stop_autosample")

AutosampleClockSyncOn(src, ev) ==
    /\ Dispatch(ev, "_handler_autosample_clock_sync")
    /\ Script(src, "_handler_autosample_clock_sync")

ResetOn(src, ev) ==
    /\ Dispatch(ev, "_handler_command_execute_reset")
    /\ Script(src, "_handler_command_execute_reset")

AcquireSampleOn(src, ev) ==
    /\ Dispatch(ev, "_handler_command_acquire_sample")
    /\ Script(src, "_handler_command_acquire_sample")

\* _handler_command_set_configuration; _build_set_configuration_command
\* raises when no user_configuration is given, before anything is written
SetConfigurationOn(src, ev) ==
    /\ Dispatch(ev, "_handler_command_set_configuration")
    /\ \E given \in BOOLEAN :
          IF given
          THEN Script(src, "_handler_command_set_configuration")
          ELSE OnEvent(src, "_handler_command_set_configuration",
                       [next |-> "None",
                        raises |-> "InstrumentParameterException",
                        wire |-> <<>>, promptbuf |-> promptbuf,
                        pd |-> param_dict],
                       NoCall, NoRead)

StartDirectOn(src, ev) ==
    /\ Dispatch(ev, "_handler_command_start_direct")
    /\ OnEvent(src, "_handler_command_start_direct",
               [next |-> next_of("_handler_command_start_direct"),
                raises |-> "ok", wire |-> <<>>, promptbuf |-> promptbuf,
                pd |-> param_dict],
               NoCall, NoRead)

\* _handler_direct_access_execute_direct passes the data to the transport
ExecuteDirectOn(src, ev) ==
    /\ Dispatch(ev, "_handler_direct_access_execute_direct")
    /\ OnEvent(src, "_handler_direct_access_execute_direct",
               [next |-> "None", raises |-> "ok",
                wire |-> <<Entry("data", "-")>>, promptbuf |-> promptbuf,
                pd |-> param_dict],
               NoCall, NoRead)

\* InstrumentFSM.on_event for an event the current state has no handler for
UnhandledOn(src, ev) ==
    /\ ev \notin Handled(state)
    /\ OnEvent(src, "none",
               [next |-> "None", raises |-> "InstrumentStateException",
                wire |-> <<>>, promptbuf |-> promptbuf, pd |-> param_dict],
               NoCall, NoRead)

\* InstrumentFSM.on_event(ev) called by src: the handler the current state
\* has for ev runs, if it has one
on_event(src, ev) ==
    \/ DiscoverOn(src, ev, EventProbeSeqs, ReadChoices)
    \/ StopDirectOn(src, ev)
    \/ SetOn(src, ev, EventBatches)
    \/ GetOn(src, ev)
    \/ AcquireStatusOn(src, ev)
    \/ ClockSyncOn(src, ev)
    \/ StartAutosampleOn(src, ev)
    \/ StopAutosampleOn(src, ev)
    \/ AutosampleClockSyncOn(src, ev)
    \/ ResetOn(src, ev)
    \/ AcquireSampleOn(src, ev)
    \/ SetConfigurationOn(src, ev)
    \/ StartDirectOn(src, ev)
    \/ ExecuteDirectOn(src, ev)
    \/ UnhandledOn(src, ev)

\* the events of the caller, by the handler that runs
Discover ==
    /\ \E ev \in ProtocolEvent : DiscoverOn("caller", ev, EventProbeSeqs, ReadChoices)
    /\ UNCHANGED session
StopDirect ==
    /\ \E ev \in ProtocolEvent : StopDirectOn("caller", ev)
    /\ UNCHANGED session
Set ==
    /\ \E ev \in ProtocolEvent : SetOn("caller", ev, EventBatches)
    /\ UNCHANGED session
Get ==
    /\ \E ev \in ProtocolEvent : GetOn("caller", ev)
    /\ UNCHANGED session
AcquireStatus ==
    /\ \E ev \in ProtocolEvent : AcquireStatusOn("caller", ev)
    /\ UNCHANGED session
ClockSync ==
    /\ \E ev \in ProtocolEvent : ClockSyncOn("caller", ev)
    /\ UNCHANGED session
StartAutosample ==
    /\ \E ev \in ProtocolEvent : StartAutosampleOn("caller", ev)
    /\ UNCHANGED session
StopAutosample ==
    /\ \E ev \in ProtocolEvent : StopAutosampleOn("caller", ev)
    /\ UNCHANGED session
AutosampleClockSync ==
    /\ \E ev \in ProtocolEvent : AutosampleClockSyncOn("caller", ev)
    /\ UNCHANGED session
Reset ==
    /\ \E ev \in ProtocolEvent : ResetOn("caller", ev)
    /\ UNCHANGED session
AcquireSample ==
    /\ \E ev \in ProtocolEvent : AcquireSampleOn("caller", ev)
    /\ UNCHANGED session
SetConfiguration ==
    /\ \E ev \in ProtocolEvent : SetConfigurationOn("caller", ev)
    /\ UNCHANGED session
StartDirect ==
    /\ \E ev \in ProtocolEvent : StartDirectOn("caller", ev)
    /\ UNCHANGED session
ExecuteDirect ==
    /\ \E ev \in ProtocolEvent : ExecuteDirectOn("caller", ev)
    /\ UNCHANGED session
Unhandled ==
    /\ \E ev \in ProtocolEvent : UnhandledOn("caller", ev)
    /\ UNCHANGED session

\* The scheduler fires an armed job: the callback start_scheduled_job
\* registered calls on_event with the event of the job.
FireJob ==
    /\ armed # {}
    /\ \E j \in armed : on_event("scheduler", j.event)
    /\ UNCHANGED session

\* Set given a batch of up to MaxBatch pairs
SetBatch ==
    /\ \E ev \in ProtocolEvent : SetOn("caller", ev, Batches)
    /\ UNCHANGED session

\* Discover with the probe answered by any of ProbeSeqs
DiscoverProbe ==
    /\ \E ev \in ProtocolEvent :
          DiscoverOn("caller", ev, ProbeSeqs, WaitReadChoices)
    /\ UNCHANGED session

----------------------------------------------------------------------------
(* The session: on_event exchange by exchange.  The caller of the driver   *)
(* and the scheduler call on_event from threads of their own.  The one     *)
(* that is inside on_event goes through the exchanges of its log one at a  *)
(* time; the variables of the protocol show what its on_event leaves at    *)
(* its return.  _handler_command_start_autosample calls on_event for       *)
(* CLOCK_SYNC itself, in its own thread: the exchange of the clock is the  *)
(* first of its log.                                                       *)

\* the callers of on_event
Threads == {"caller", "scheduler"}

\* a thread outside on_event
NoTask == [inside |-> FALSE, log |-> <<>>, at |-> 0, open |-> FALSE]

\* nobody inside on_event, no fired job waiting, nothing on the transport
NoSession ==
    [task |-> [t \in Threads |-> NoTask], fired |-> {}, line |-> <<>>]

\* the threads inside on_event
Inside(s) == {t \in Threads : s.task[t].inside}

\* Variant of may_enter without the mutual exclusion: a thread enters
\* on_event whoever else is inside.  C20 does not hold of it.
may_enter_unlocked(s, who) == ~s.task[who].inside

\* The execution context of the events is mutually exclusive: who enters
\* on_event once nobody is inside.
may_enter(s, who) == Inside(s) = {}

\* who is inside on_event, with the exchanges of log ahead
Entered(s, who, log) ==
    [s EXCEPT !.task[who] =
        [inside |-> TRUE, log |-> log, at |-> 0, open |-> FALSE]]

\* what a step of who leaves on the transport (time.sleep leaves nothing)
OnLine(s, who, part) ==
    IF s.task[who].log[s.task[who].at + 1].cmd = "sleep" THEN s.line
    ELSE Append(s.line, [by |-> who, n |-> s.task[who].at + 1,
                         part |-> part])

\* the events the caller sends in a session
SessionEvents ==
    {"DISCOVER", "SET", "START_AUTOSAMPLE", "STOP_AUTOSAMPLE", "CLOCK_SYNC",
     "ACQUIRE_STATUS"}

\* the jobs that may fire: the jobs armed, and while a thread is inside
\* on_event those armed at its dispatch
Firing == armed \cup (IF Inside(session) # {} THEN pre.armed ELSE {})

\* the caller calls on_event
CallerEnters ==
    /\ may_enter(session, "caller")
    /\ \E ev \in SessionEvents : on_event("caller", ev)
    /\ session' = Entered(session, "caller", wire')

\* the timer of a job fires: its event waits for the execution context
JobFires ==
    /\ \E j \in Firing :
          /\ j.event \notin session.fired
          /\ session' = [session EXCEPT !.fired = @ \cup {j.event}]
    /\ UNCHANGED <<protocol_vars, codec, chunker>>

\* the event of a fired job is delivered: the callback start_scheduled_job
\* registered calls on_event
SchedulerEnters ==
    /\ may_enter(session, "scheduler")
    /\ \E ev \in session.fired :
          /\ on_event("scheduler", ev)
          /\ session' = [Entered(session, "scheduler", wire')
                            EXCEPT !.fired = @ \ {ev}]

\* the thread inside starts the next exchange of its log: the command is
\* written
Begins ==
    /\ \E who \in Inside(session) :
          /\ ~session.task[who].open
          /\ session.task[who].at < Len(session.task[who].log)
          /\ session' = [session EXCEPT
                            !.task[who].open = TRUE,
                            !.line = OnLine(session, who, "command")]
    /\ UNCHANGED <<protocol_vars, codec, chunker>>

\* the exchange in progress ends: its reply is read or its wait given up
Ends ==
    /\ \E who \in Inside(session) :
          /\ session.task[who].open
          /\ session' = [session EXCEPT
                            !.task[who].open = FALSE,
                            !.task[who].at = @ + 1,
                            !.line = OnLine(session, who, "end")]
    /\ UNCHANGED <<protocol_vars, codec, chunker>>

\* on_event returns once the exchanges of the handler and of the
\* transition are over
Leaves ==
    /\ \E who \in Inside(session) :
          /\ ~session.task[who].open
          /\ session.task[who].at = Len(session.task[who].log)
          /\ session' = [session EXCEPT
                            !.task[who] = NoTask,
                            !.line = IF Inside(session) = {who} THEN <<>>
                                     ELSE @]
    /\ UNCHANGED <<protocol_vars, codec, chunker>>

----------------------------------------------------------------------------
(* Actions of the codec.                                                   *)

\* what the last call of the codec did: the registry it left and the one
\* it found, the call, its input, the block it returned, what it raised
\* and with which message, the block the registry was updated from by this
\* call or, for _create_set_output, by the call before it, and the number
\* of calls so far
CodecCall(pd, op, input, output, raises, message, block, before, calls) ==
    [pd |-> pd, op |-> op, input |-> input, output |-> output,
     raises |-> raises, message |-> message, block |-> block,
     before |-> before, calls |-> calls]

\* the codec before its first call
NoCodecCall ==
    CodecCall(InitBytesDict, "none", <<>>, <<>>, "ok", "", <<>>,
              InitBytesDict, 0)

\* set_init_params given text did r
SetInitParamsDid(text, r) ==
    /\ codec' = CodecCall(r.pd, "set_init_params", text, <<>>, r.raises,
                          r.message,
                          IF r.updated THEN b64decode(text) \o Z_ACK
                          ELSE <<>>,
                          codec.pd, codec.calls + 1)
    /\ UNCHANGED <<protocol_vars, session, chunker>>

\* set_init_params with a text under DriverParameter.ALL
SetInitParams ==
    /\ codec.calls < MaxCalls
    /\ \E text \in RawConfigTexts :
          \E visit \in VisitsOn(b64decode(text) \o Z_ACK) :
             SetInitParamsDid(text, set_init_params(codec.pd, text, visit))

\* _param_dict.update(input) did u
UpdateDid(input, u) ==
    /\ codec' = CodecCall(u.pd, "update", input, <<>>, u.raises, "", input,
                          codec.pd, codec.calls + 1)
    /\ UNCHANGED <<protocol_vars, session, chunker>>

\* _param_dict.update(self._promptbuf) of _update_params, the prompt buffer
\* holding a block that passed _check_configuration
UpdateFromBlock ==
    /\ codec.calls < MaxCalls
    /\ \E input \in ValidBlocks :
          \E visit \in VisitsOn(input) :
             UpdateDid(input, update_bytes(codec.pd, input, visit))

\* set_from_value of _handler_command_set for a read-write field
CodecSetFromValue ==
    /\ codec.calls < MaxCalls
    /\ \E name \in CodecSetNames :
          \E value \in CodecSetValues :
             codec' = CodecCall([codec.pd EXCEPT ![name] = value],
                                "set_from_value", <<>>, <<>>, "ok", "",
                                <<>>, codec.pd, codec.calls + 1)
    /\ UNCHANGED <<protocol_vars, session, chunker>>

\* _create_set_output(parameters) did r
CreateSetOutputDid(r) ==
    /\ codec' = CodecCall(codec.pd, "_create_set_output", <<>>, r.output,
                          r.raises, "",
                          IF codec.op \in {"update", "set_init_params"}
                          THEN codec.block ELSE <<>>,
                          codec.pd, codec.calls + 1)
    /\ UNCHANGED <<protocol_vars, session, chunker>>

\* _create_set_output of _handler_command_set
CreateSetOutput ==
    /\ codec.calls < MaxCalls
    /\ CreateSetOutputDid(create_set_output(codec.pd))

\* a static conversion of NortekProtocolParameterDict called on its own
\* with one of ConvertBuffers: the registry is not touched
Convert ==
    /\ codec = NoCodecCall
    /\ \E conversion \in Conversions :
          \E bytes \in ConvertBuffers :
             \E r \in {Converted(conversion, bytes)} :
                codec' = CodecCall(codec.pd, conversion, bytes, r.output,
                                   r.raises, "", <<>>, codec.pd,
                                   codec.calls + 1)
    /\ UNCHANGED <<protocol_vars, session, chunker>>

\* hw_config_to_dict, head_config_to_dict or user_config_to_dict called
\* on its own with one of its inputs
ConfigToDict ==
    /\ codec = NoCodecCall
    /\ \E p \in ConfigParticles :
          \E input_stream \in ConfigInputs(p) :
             codec' = CodecCall(codec.pd, p.decoder, input_stream, <<>>,
                                config_to_dict(p, input_stream), "", <<>>,
                                codec.pd, codec.calls + 1)
    /\ UNCHANGED <<protocol_vars, session, chunker>>

\* _build_parsed_values of the particle of a configuration with one of the
\* inputs of its decoder as raw_data: the decoder raises, or the particle
\* is built with its quality flag, recorded as what the call returned
BuildParsedValues ==
    /\ codec = NoCodecCall
    /\ \E p \in ConfigParticles :
          \E raw_data \in ConfigInputs(p) :
             \E raises \in {config_to_dict(p, raw_data)} :
                codec' = CodecCall(codec.pd, p.particle, raw_data,
                                   IF raises = "ok"
                                   THEN quality_flag(raw_data, p.len)
                                   ELSE "none",
                                   raises, "", <<>>, codec.pd,
                                   codec.calls + 1)
    /\ UNCHANGED <<protocol_vars, session, chunker>>

\* the values of a string field of width bytes the registry may hold: the
\* empty string, one byte, and strings of width to width + MaxFieldExcess
\* bytes 'C'
StringValues(width) ==
    {[j \in 1..n |-> 67] : n \in {0, 1} \cup (width..(width + MaxFieldExcess))}

\* _create_set_output(parameters) called on its own with the registry a
\* read of the reference configuration leaves, holding a comment and a
\* deployment name of StringValues
CreateSetOutputOfStrings ==
    /\ codec = NoCodecCall
    /\ \E visit \in VisitsOn(ReferenceBlock \o Z_ACK) :
          \E comment \in StringValues(180) :
             \E deployment_name \in StringValues(6) :
                \E pd \in {[update_bytes(InitBytesDict,
                                         ReferenceBlock \o Z_ACK, visit).pd
                              EXCEPT !["Comments"] = StrB(comment),
                                     !["DeploymentName"] =
                                         StrB(deployment_name)]} :
                   \E r \in {create_set_output(pd)} :
                      codec' = CodecCall(pd, "_create_set_output", <<>>,
                                         r.output, r.raises, "", <<>>, pd,
                                         codec.calls + 1)
    /\ UNCHANGED <<protocol_vars, session, chunker>>

----------------------------------------------------------------------------
(* Actions of the chunker.                                                 *)

\* the chunker before the first byte: the stream it receives and the
\* number of its bytes that have arrived, the list
\* NORTEK_COMMON_DYNAMIC_SAMPLE_STRUCTS, the ranges the last invocation of
\* the sieve returned and the number of bytes it was given, the same of the
\* invocation before it as long as no bytes arrived since, the number of
\* invocations since bytes arrived or a response was registered (2: two or
\* more), the last operation and what it raised
NoChunker ==
    [stream |-> 0, arrived |-> 0, dynamic_structs |-> <<>>,
     return_list |-> <<>>, sieved_at |-> -1,
     previous |-> <<>>, previous_at |-> -1,
     sieved |-> 0, op |-> "none", raises |-> "ok"]

\* the first n bytes of the stream s
Received(s, n) == SubSeq(Streams[s].bytes, 1, n)

\* the bytes the chunker holds
RawData(c) == IF c.stream = 0 THEN <<>> ELSE Received(c.stream, c.arrived)

\* bytes of the instrument arrive and are appended to those the chunker
\* holds: the first delivery tells the stream
AddChunk ==
    /\ \E s \in IF chunker.stream = 0 THEN DOMAIN Streams
                ELSE {chunker.stream} :
          \E n \in Cuts(Streams[s]) :
             /\ n > chunker.arrived
             /\ chunker' = [chunker EXCEPT !.stream = s, !.arrived = n,
                                           !.previous = <<>>,
                                           !.previous_at = -1,
                                           !.sieved = 0,
                                           !.op = "add_chunk",
                                           !.raises = "ok"]
    /\ UNCHANGED <<protocol_vars, codec, session>>

\* chunker_sieve_function over the bytes the chunker holds did r
SieveDid(r) ==
    /\ chunker' = [chunker EXCEPT
                      !.return_list = r.return_list,
                      !.dynamic_structs = r.dynamic_structs,
                      !.sieved_at = chunker.arrived,
                      !.previous = chunker.return_list,
                      !.previous_at = chunker.sieved_at,
                      !.sieved = IF @ < 2 THEN @ + 1 ELSE 2,
                      !.op = "chunker_sieve_function",
                      !.raises = "ok"]
    /\ UNCHANGED <<protocol_vars, codec, session>>

\* the chunker invokes chunker_sieve_function over the bytes it holds
Sieve ==
    /\ chunker.stream # 0
    /\ SieveDid(chunker_sieve_function(RawData(chunker), <<>>,
                                       chunker.dynamic_structs))

\* _parse_read_clock_response(response, prompt) for a response of the
\* instrument that has arrived: a response of eight bytes is appended to
\* NORTEK_COMMON_DYNAMIC_SAMPLE_STRUCTS, another one raises
ParseReadClockResponse ==
    /\ chunker.stream # 0
    /\ Len(chunker.dynamic_structs) < MaxRegistered
    /\ \E r \in Streams[chunker.stream].responses :
          /\ r[2] <= chunker.arrived
          /\ chunker' =
                IF r[2] - r[1] # 8
                THEN [chunker EXCEPT
                         !.op = "_parse_read_clock_response",
                         !.raises = "InstrumentProtocolException"]
                ELSE [chunker EXCEPT
                         !.dynamic_structs =
                             Append(@, Struct(Slice(RawData(chunker),
                                                    r[1], r[2]),
                                              ID_LEN)),
                         !.sieved = 0,
                         !.op = "_parse_read_clock_response",
                         !.raises = "ok"]
    /\ UNCHANGED <<protocol_vars, codec, session>>

\* _get_mode(timeout) called on its own, the instrument replying to the
\* probes with one of WhatModeSeqs.  A call clears the prompt buffer and
\* keeps nothing of the call before it: one call is followed.
GetMode ==
    /\ whatmode = NoModeCall
    /\ \E replies \in WhatModeSeqs :
          whatmode' = [replies |-> replies, got |-> get_mode(replies)]
    /\ UNCHANGED <<state, param_dict, promptbuf, armed, instr, handler,
                   source, outcome, wire, staging, probe, pre, notified,
                   waited, result>>
    /\ UNCHANGED <<codec, session, chunker>>

----------------------------------------------------------------------------
(* The protocol after construction: the state machine started in UNKNOWN,  *)
(* the registry at its defaults, no job scheduled.  The instrument may be  *)
(* in command or in measurement mode.                                      *)

Init ==
    /\ state = "UNKNOWN"
    /\ param_dict = InitParamDict
    /\ promptbuf = <<>>
    /\ armed = {}
    /\ instr \in {"command", "measurement"}
    /\ handler = "none"
    /\ source = "caller"
    /\ outcome = "ok"
    /\ wire = <<>>
    /\ staging = NoCall
    /\ probe = <<>>
    /\ pre = [state |-> "UNKNOWN", config |-> get_config(InitParamDict),
              instr |-> instr, armed |-> {}]
    /\ notified = FALSE
    /\ waited = NoWait
    /\ result = NoResult
    /\ whatmode = NoModeCall
    /\ codec = NoCodecCall
    /\ session = NoSession
    /\ chunker = NoChunker

\* the protocol: every event, from the caller and from the scheduler
Next ==
    \/ Discover
    \/ StopDirect
    \/ Set
    \/ Get
    \/ AcquireStatus
    \/ ClockSync
    \/ StartAutosample
    \/ StopAutosample
    \/ AutosampleClockSync
    \/ Reset
    \/ AcquireSample
    \/ SetConfiguration
    \/ StartDirect
    \/ ExecuteDirect
    \/ Unhandled
    \/ FireJob

Spec == Init /\ [][Next]_vars

\* the registry: Discover, then Set with batches of up to MaxBatch pairs
NextSet == Discover \/ SetBatch

SpecSet == Init /\ [][NextSet]_vars

\* the what-mode probe: Discover with every probe reply of ProbeSeqs
NextDiscover == DiscoverProbe

SpecDiscover == Init /\ [][NextDiscover]_vars

\* the codec: the registry fed with blocks and binary configurations, set
\* from values and formatted into a block
NextCodec ==
    \/ SetInitParams
    \/ UpdateFromBlock
    \/ CodecSetFromValue
    \/ CreateSetOutput

SpecCodec == Init /\ [][NextCodec]_vars

\* the session: the caller and the scheduler call on_event concurrently,
\* each on_event goes exchange by exchange
NextSession ==
    \/ CallerEnters
    \/ JobFires
    \/ SchedulerEnters
    \/ Begins
    \/ Ends
    \/ Leaves

SpecSession == Init /\ [][NextSession]_vars

\* the chunker: bytes arrive, responses are registered, the sieve is invoked
NextChunker ==
    \/ AddChunk
    \/ Sieve
    \/ ParseReadClockResponse

SpecChunker == Init /\ [][NextChunker]_vars

\* the what-mode probe on its own
NextWhatMode == GetMode

SpecWhatMode == Init /\ [][NextWhatMode]_vars

\* the conversions of the codec, the decoders of the configurations and
\* their particles, each call on its own
NextConvert ==
    \/ Convert
    \/ ConfigToDict
    \/ BuildParsedValues
    \/ CreateSetOutputOfStrings

SpecConvert == Init /\ [][NextConvert]_vars

----------------------------------------------------------------------------
(* Properties.  They are stated on the state on_event leaves: handler,     *)
(* outcome, wire, staging and probe tell what the last event did, pre what *)
(* held when it was dispatched.                                            *)

SetHandled == handler = "_handler_command_set"

\* the last Set ended in the staging loop, on a pair set_from_value refused
SetRefused == SetHandled /\ staging.raises # "ok"

\* C1: after a Set that failed on a rejected pair, get_config() of the live
\* registry equals the snapshot taken before the call.
C1_FailedSetKeepsSnapshot ==
    SetRefused => get_config(param_dict) = pre.config

\* C2: a Set whose batch has a pair set_from_value refuses writes nothing to
\* the transport; CC and the block are written only when every pair of the
\* batch was accepted.
C2_FailedSetWritesNothing ==
    SetHandled =>
        /\ staging.raises # "ok" => wire = <<>>
        /\ (\E n \in DOMAIN wire : wire[n].cmd \in {"CC", "block"})
              => staging.raises = "ok"

\* a Set refused at its second pair, the first one accepted
C2_Witness ==
    /\ SetRefused
    /\ staging.pos = 2
    /\ get_config(param_dict) # pre.config
    /\ wire = <<>>

\* the last set_from_value call of the last Set was for a registered name
StagedRegistered == SetHandled /\ staging.pos > 0 /\ staging.name \in ParamNames

\* C3: set_from_value on a read-only or immutable parameter is rejected for
\* every value and leaves the stored value unchanged.
C3_ReadOnlyOrImmutableRejected ==
    (StagedRegistered
        /\ Desc(staging.name).visibility \in {"READ_ONLY", "IMMUTABLE"})
    => staging.raises # "ok" /\ staging.new = staging.old

\* the values set_from_value is given: an int, a str, None
SetValues == {IntV(5), StrV("5"), NoneV}

\* the value is of the kind set_from_value expects for the parameter
ExpectedKind(name, value) ==
    value.k = (IF ExpectsInt(name) THEN "int" ELSE "str")

\* C4 as stated: set_from_value on a read-only parameter fails with the
\* read-only error for every value, and the registry is unchanged.
C4_ReadOnlyErrorForEveryValue ==
    (StagedRegistered /\ Desc(staging.name).visibility = "READ_ONLY")
    => /\ staging.raises = "ReadOnlyException"
       /\ get_config(param_dict) = pre.config

\* C4, amended: set_from_value on a read-only parameter fails for every value
\* and leaves the registry unchanged; it fails with the read-only error when
\* the value is of the expected kind, and with the parameter error, raised
\* by the check of the kind that comes first, when it is not.
C4_ReadOnlyRejectedByKind ==
    /\ \A name \in ParamNames, v \in SetValues :
          Desc(name).visibility = "READ_ONLY" =>
             /\ set_from_value_raises(name, v) =
                   (IF ExpectedKind(name, v) THEN "ReadOnlyException"
                    ELSE "InstrumentParameterException")
             /\ set_from_value(param_dict, name, v) = param_dict
    /\ (StagedRegistered /\ Desc(staging.name).visibility = "READ_ONLY")
       => /\ staging.raises =
                (IF ExpectedKind(staging.name, staging.value)
                 THEN "ReadOnlyException"
                 ELSE "InstrumentParameterException")
          /\ staging.new = staging.old

\* a Set of a str to a read-only word parameter, refused by the kind
C4_Witness ==
    /\ StagedRegistered
    /\ Desc(staging.name).visibility = "READ_ONLY"
    /\ ~ExpectedKind(staging.name, staging.value)
    /\ staging.raises = "InstrumentParameterException"
    /\ staging.new = staging.old

DiscoverHandled == handler = "_handler_unknown_discover"

\* the probe response carries an indicator of measurement, of command mode
CarriesMeasurement(buf) ==
    In(CONFIRMATION, buf) \/ In(MODE_MEASUREMENT, buf)
        \/ In(MODE_CONFIRMATION, buf)

CarriesCommand(buf) == In(COMMAND_MODE, buf) \/ In(MODE_COMMAND, buf)

\* C5 as stated: Discover moves to Autosample when the probe response
\* carries the confirmation prompt or the measurement or confirmation
\* sentinel, to Command when it carries the command prompt or the command
\* sentinel, and to no other state.
C5_DiscoverByIndicator ==
    DiscoverHandled =>
        /\ CarriesMeasurement(probe) => state = "AUTOSAMPLE"
        /\ CarriesCommand(probe) => state = "COMMAND"
        /\ state \in {"UNKNOWN", "COMMAND", "AUTOSAMPLE"}

\* C5, amended: the indicators are looked for in a fixed order and the first
\* one found decides: the command prompt (Command), the confirmation prompt
\* (Autosample), the command sentinel (Command), the measurement or
\* confirmation sentinel (Autosample).  Discover moves to no other state, and
\* moves only when the response carries one of the indicators.
C5_DiscoverByFirstIndicator ==
    DiscoverHandled =>
        /\ In(COMMAND_MODE, probe) => state = "COMMAND"
        /\ (~In(COMMAND_MODE, probe) /\ In(CONFIRMATION, probe))
              => state = "AUTOSAMPLE"
        /\ (~In(COMMAND_MODE, probe) /\ ~In(CONFIRMATION, probe)
              /\ In(MODE_COMMAND, probe)) => state = "COMMAND"
        /\ (~In(COMMAND_MODE, probe) /\ ~In(CONFIRMATION, probe)
              /\ ~In(MODE_COMMAND, probe)
              /\ (In(MODE_MEASUREMENT, probe) \/ In(MODE_CONFIRMATION, probe)))
              => state = "AUTOSAMPLE"
        /\ state \in {"UNKNOWN", "COMMAND", "AUTOSAMPLE"}
        /\ state # "UNKNOWN"
              => CarriesMeasurement(probe) \/ CarriesCommand(probe)

\* a response that carries the measurement sentinel and the command
\* sentinel: Discover moves to Command
C5_Witness ==
    /\ DiscoverHandled
    /\ In(MODE_MEASUREMENT, probe)
    /\ In(MODE_COMMAND, probe)
    /\ state = "COMMAND"

\* Discover can be attempted: the state has a handler for the event
DiscoverRegistered ==
    \E ev \in ProtocolEvent : Dispatch(ev, "_handler_unknown_discover")

\* C6 as stated: when the probe response carries no known prompt and no
\* known sentinel within the timeout, Discover fails with the unknown-state
\* error, the state stays Unknown and Discover can be attempted again.
C6_NoIndicatorIsStateError ==
    (DiscoverHandled /\ ~CarriesMeasurement(probe) /\ ~CarriesCommand(probe))
    => /\ outcome = "InstrumentStateException"
       /\ state = "UNKNOWN"
       /\ DiscoverRegistered

\* C6, amended: when no prompt arrives within the timeout (nothing, or the
\* negative acknowledgment only), Discover fails with the timeout error;
\* when the acknowledgment arrives with none of the three sentinels, it fails
\* with the unknown-state error.  In both cases the state stays Unknown and
\* Discover can be attempted again; Discover fails in no other case before
\* the state has changed.
C6_DiscoverFailure ==
    DiscoverHandled =>
        /\ FirstPrompt(probe) = <<>>
              => outcome = "InstrumentTimeoutException" /\ state = "UNKNOWN"
        /\ (FirstPrompt(probe) # <<>> /\ ~CarriesMeasurement(probe)
              /\ ~CarriesCommand(probe))
              => outcome = "InstrumentStateException" /\ state = "UNKNOWN"
        /\ state = "UNKNOWN"
              => /\ outcome \in {"InstrumentTimeoutException",
                                 "InstrumentStateException"}
                 /\ ~CarriesMeasurement(probe) /\ ~CarriesCommand(probe)
                 /\ param_dict = InitParamDict
                 /\ DiscoverRegistered

\* no prompt within the timeout, after more than one probe
C6_Witness ==
    /\ DiscoverHandled
    /\ FirstPrompt(probe) = <<>>
    /\ Len(wire) > 2
    /\ outcome = "InstrumentTimeoutException"
    /\ state = "UNKNOWN"

\* C7: AcquireStatus run in Autosample with the instrument measuring returns
\* with the protocol in Autosample and the instrument measuring again; run
\* in Command it ends in Command.
C7_AcquireStatusRestores ==
    (handler = "_handler_acquire_status" /\ outcome = "ok")
    => /\ state = pre.state
       /\ (pre.state = "AUTOSAMPLE" /\ pre.instr = "measurement")
             => instr = "measurement"

StartAutosampleHandled == handler = "_handler_command_start_autosample"

\* C8: in StartAutosample the clock-sync exchange comes first and the start
\* command is sent only once it has completed; the state is Autosample
\* exactly when the start command was acknowledged; when the clock-sync
\* exchange fails, the exception reaches the caller, nothing more is sent
\* (no second clock sync, no start command) and the state stays Command.
C8_StartAutosampleOrder ==
    StartAutosampleHandled =>
        /\ wire # <<>> /\ wire[1].cmd = "SC"
        /\ \A n \in DOMAIN wire :
              wire[n].cmd = "ST" => n = 2 /\ Answered(wire[1])
        /\ state = "AUTOSAMPLE"
              <=> (Len(wire) = 2 /\ wire[2] = Entry("ST", "ACK"))
        /\ ~Answered(wire[1])
              => /\ outcome = "InstrumentTimeoutException"
                 /\ Len(wire) = 1
                 /\ state = "COMMAND"
        /\ state \in {"COMMAND", "AUTOSAMPLE"}

\* a StartAutosample that reached Autosample
C8_Witness ==
    /\ StartAutosampleHandled
    /\ pre.state = "COMMAND"
    /\ wire = <<Entry("SC", "prompt"), Entry("ST", "ACK")>>
    /\ state = "AUTOSAMPLE"

StopAutosampleHandled == handler = "_handler_autosample_stop_autosample"

\* the commands of the wire log, in order
Cmds(log) == [n \in DOMAIN log |-> log[n].cmd]

\* s is a prefix of t
IsPrefix(s, t) == Len(s) <= Len(t) /\ SubSeq(t, 1, Len(s)) = s

\* C10: StopAutosample writes the first half of the soft break, waits,
\* writes the second half, waits, writes the confirmation command, in that
\* order; the state is Command exactly when the confirmation command was
\* acknowledged; when an awaited prompt does not arrive, the timeout reaches
\* the caller, nothing more is sent and the state stays Autosample.
C10_StopAutosampleOrder ==
    StopAutosampleHandled =>
        /\ \/ IsPrefix(Cmds(wire),
                       <<"@@@@@@", "sleep", "K1W%!Q", "sleep", "MC">>)
           \/ /\ SubSeq(Cmds(wire), 1, 5) =
                    <<"@@@@@@", "sleep", "K1W%!Q", "sleep", "MC">>
              /\ \A n \in 6..Len(wire) : wire[n].cmd = "GC"
        /\ state = "COMMAND"
              <=> (Len(wire) >= 5 /\ wire[5] = Entry("MC", "ACK")
                   /\ wire[3] = Entry("K1W%!Q", "Confirm:"))
        /\ (\E n \in {3, 5} \cap DOMAIN wire : wire[n].reply = "timeout")
              => /\ outcome = "InstrumentTimeoutException"
                 /\ wire[Len(wire)].reply = "timeout"
                 /\ state = "AUTOSAMPLE"
        /\ state \in {"COMMAND", "AUTOSAMPLE"}

\* a StopAutosample that reached Command
C10_Witness ==
    /\ StopAutosampleHandled
    /\ pre.state = "AUTOSAMPLE"
    /\ Len(wire) >= 5
    /\ wire[5] = Entry("MC", "ACK")
    /\ state = "COMMAND"

ResetHandled == handler = "_handler_command_execute_reset"

\* C11 as stated: Reset has a handler in Command and in Autosample, and once
\* the power-down command is acknowledged the state is Unknown.
C11_ResetLeavesUnknown ==
    /\ state \in {"COMMAND", "AUTOSAMPLE"} => "RESET" \in Handled(state)
    /\ (ResetHandled /\ outcome = "ok") => state = "UNKNOWN"

\* C11, amended: Reset has a handler in Command only; the handler sends the
\* power-down command and nothing else, succeeds exactly when the command is
\* acknowledged, and the state is Command after it as it was before.
C11_ResetStaysInCommand ==
    /\ "RESET" \in Handled(state) <=> state = "COMMAND"
    /\ ResetHandled =>
          /\ pre.state = "COMMAND"
          /\ state = "COMMAND"
          /\ Len(wire) = 1 /\ wire[1].cmd = "PD"
          /\ outcome = "ok" <=> wire[1] = Entry("PD", "ACK")

\* a Reset acknowledged by the instrument, which powers down
C11_Witness ==
    /\ ResetHandled
    /\ outcome = "ok"
    /\ wire = <<Entry("PD", "ACK")>>
    /\ instr = "powerdown"
    /\ state = "COMMAND"

StopDirectHandled == handler = "_handler_direct_access_stop_direct"

\* the mode a probe response tells: the command prompt, the confirmation
\* prompt, the command sentinel, the measurement or confirmation sentinel,
\* looked for in that order
Classified(buf) ==
    IF In(COMMAND_MODE, buf) THEN "COMMAND"
    ELSE IF In(CONFIRMATION, buf) THEN "AUTOSAMPLE"
    ELSE IF In(MODE_COMMAND, buf) THEN "COMMAND"
    ELSE IF In(MODE_MEASUREMENT, buf) \/ In(MODE_CONFIRMATION, buf)
    THEN "AUTOSAMPLE"
    ELSE "None"

ReadBlock == wire # <<>> /\ wire[Len(wire)] = Entry("GC", "block")

\* every field of the user configuration holds the value block c carries
HoldsBlock(pd, c) == \A name \in Parameter : pd[name] = DecodedValue(name, c)

\* C13: a Set whose block is acknowledged and whose re-read is answered by a
\* valid block wrote CC and the block, then the read command, in that order;
\* it succeeds, the state is Command, and the registry holds the values of
\* the block read.
C13_SetRereadsBlock ==
    (SetHandled /\ ReadBlock) =>
        /\ Len(wire) >= 3
        /\ SubSeq(Cmds(wire), 1, 2) = <<"CC", "block">>
        /\ \A n \in 3..Len(wire) : wire[n].cmd = "GC"
        /\ outcome = "ok"
        /\ state = "COMMAND"
        /\ \E c \in DeviceConfigs : HoldsBlock(param_dict, c)

\* C14: an event other than Set changes the registry only when its read of
\* the user configuration is answered by a valid block, and then the fields
\* of the user configuration all hold the values of one block.
C14_RegistryFromOneBlock ==
    handler # "_handler_command_set" =>
        /\ ~ReadBlock => param_dict = [name \in ParamNames |->
                            IF name \in get_keys THEN pre.config[name]
                            ELSE param_dict[name]]
        /\ ReadBlock => \E c \in DeviceConfigs : HoldsBlock(param_dict, c)

\* C15: an event that read the user configuration sent the configuration
\* change event exactly when get_config() after the read differs from
\* get_config() before it (for an event other than Set, the snapshot at the
\* dispatch).
C15_NotifiedIffChanged ==
    (handler # "_handler_command_set"
        /\ \E n \in DOMAIN wire : wire[n].cmd = "GC")
    => (notified <=> get_config(param_dict) # pre.config)

\* how many commands cmd the last event sent
Sent(cmd) == Cardinality({n \in DOMAIN wire : wire[n].cmd = cmd})

\* how the routine of the last bounded wait ended: _update_params is the
\* last call of its event, _get_mode is followed by the classification
WaitOutcome ==
    IF waited.loop = "_update_params" THEN outcome ELSE waited.raises

\* C19, as claimed: a bounded wait that was run ended in success or in the
\* timeout, and in the timeout only after its deadline.  The read of the
\* user configuration ends in SampleException when a valid block arrives.
C19_WaitSucceedsOrTimesOut ==
    waited.loop # "none" =>
        /\ WaitOutcome \in {"ok", "InstrumentTimeoutException"}
        /\ WaitOutcome = "InstrumentTimeoutException"
               => waited.elapsed > waited.timeout

\* C19, what holds of the waits: the probe and the read go round at most
\* once per tick of their timeout and once more, whatever the instrument
\* sends; they end when the awaited answer has arrived or in the timeout,
\* and in the timeout only when more than the timeout has elapsed.
C19_WaitsEndInTime ==
    /\ Sent("II") <= probe_timeout + 1
    /\ Sent("GC") <= read_timeout + 1
    /\ waited.loop # "none" =>
          /\ waited.raises \in {"ok", "InstrumentTimeoutException"}
          /\ waited.timeout = (IF waited.loop = "_get_mode"
                               THEN probe_timeout ELSE read_timeout)
          /\ waited.raises = "InstrumentTimeoutException"
                => /\ waited.elapsed > waited.timeout
                   /\ outcome = "InstrumentTimeoutException"
          /\ (waited.loop = "_update_params" /\ waited.raises = "ok")
                => wire[Len(wire)] = Entry("GC", "block")
          /\ (waited.loop = "_get_mode" /\ waited.raises = "ok")
                => FirstPrompt(probe) # <<>>

\* the read of the user configuration timed out after the instrument had
\* answered every GC with an invalid buffer
C19_Witness ==
    /\ waited.loop = "_update_params"
    /\ waited.raises = "InstrumentTimeoutException"
    /\ Sent("GC") = MaxReads
    /\ \A n \in DOMAIN wire : wire[n].cmd = "GC" => wire[n].reply = "invalid"

\* the last call of the codec was set_init_params
Imported == codec.op = "set_init_params"

\* the binary configuration has the sync bytes and, as its last word, the
\* checksum of the words before it
SyncAndChecksumValid(raw) ==
    /\ Len(raw) >= 4
    /\ Len(raw) % 2 = 0
    /\ Slice(raw, 0, 4) = USER_CONFIG_SYNC_BYTES
    /\ convert_word_to_int(Slice(raw, Len(raw) - 2, Len(raw)))
          = checksum_loop(raw, 0, Len(raw) - 2, CHECK_SUM_SEED)

Built == codec.op = "_create_set_output" /\ codec.raises = "ok"

\* C17: the last word of every block _create_set_output returns is what
\* calculate_checksum gives for the block, and the block followed by the
\* ack passes _check_configuration, the check of the blocks that arrive.
C17_BuiltChecksumPasses ==
    Built =>
        /\ convert_word_to_int(Slice(codec.output, Len(codec.output) - 2,
                                     Len(codec.output)))
              = calculate_checksum(codec.output, Len(codec.output))
        /\ check_configuration(codec.output \o Z_ACK,
                               USER_CONFIG_SYNC_BYTES, USER_CONFIG_LEN)

\* a block was built from a registry holding a value set_from_value stored
\* that does not fit a word
C17_Witness ==
    /\ Built
    /\ codec.pd["TransmitPulseLength"] = IntB(70000)
    /\ codec.pd["BlankingDistance"] = IntB(65535)

\* _create_set_output was called right after the registry was updated from
\* a block
RoundTripped == codec.op = "_create_set_output" /\ codec.block # <<>>

\* position j of a block, from 1 on, lies in the field
InField(j, name) ==
    Desc(name).off < j /\ j <= Desc(name).off + Desc(name).len

\* C18, as claimed: the block built right after the registry was updated
\* from a valid block has the bytes of that block outside the comment and
\* the deployment name.
C18_BlockRoundTrip ==
    RoundTripped =>
        /\ codec.raises = "ok"
        /\ \A j \in 1..USER_CONFIG_LEN :
              (~InField(j, "Comments") /\ ~InField(j, "DeploymentName"))
              => codec.output[j] = codec.block[j]

\* C18, what holds: when the update stored every field whose decoder did
\* not raise and a block was built, the block built has the bytes of the
\* block the registry was updated from in every such field but the comment
\* and the deployment name, and in those two up to the first null byte of
\* the field.
C18_DecodedFieldsRoundTrip ==
    (RoundTripped
        /\ codec.raises = "ok"
        /\ \A name \in Parameter \ RaisingOn(codec.block) :
              codec.pd[name]
                 = Getval(Desc(name).f_getval, Group(name, codec.block)))
    => \A name \in Parameter \ RaisingOn(codec.block) :
             IF name \in {"Comments", "DeploymentName"}
             THEN Group(name, codec.output)
                     = ljust(convert_bytes_to_string(
                                Group(name, codec.block)), Desc(name).len)
             ELSE Group(name, codec.output) = Group(name, codec.block)

\* a block was built after an update that stored every field but the mode,
\* from a block with another mode than the registry held
C18_Witness ==
    /\ RoundTripped
    /\ codec.raises = "ok"
    /\ Group("Mode", codec.block) = <<1, 2>>
    /\ Group("Mode", codec.output) = <<96, 0>>

\* the exchange (by, n) of the line at i runs to its end, or to the end of
\* the line while it is in progress
ExchangeEnd(line, i) ==
    LET ends == {j \in DOMAIN line :
                    /\ j > i
                    /\ line[j].by = line[i].by
                    /\ line[j].n = line[i].n
                    /\ line[j].part = "end"}
    IN IF ends = {} THEN Len(line)
       ELSE CHOOSE j \in ends : \A k \in ends : j <= k

\* nothing of another thread lies between the command of an exchange and
\* its end
NotInterleaved(line) ==
    \A i \in DOMAIN line :
       line[i].part = "command" =>
          \A k \in i..ExchangeEnd(line, i) : line[k].by = line[i].by

----------------------------------------------------------------------------
(* Properties of the chunker.  They are stated on what the last invocation *)
(* of the sieve returned for the bytes the chunker held, and on what the   *)
(* invocation before it returned.                                          *)

\* the stream the chunker receives
Stream == Streams[chunker.stream]

\* the number of times range r is in the list
Count(list, r) == Cardinality({i \in DOMAIN list : list[i] = r})

\* the structure of a sample, told by its length
StructOf(f) ==
    CHOOSE i \in DOMAIN NORTEK_COMMON_SAMPLE_STRUCTS :
       NORTEK_COMMON_SAMPLE_STRUCTS[i].len = f[2] - f[1]

\* the sync bytes of the structure of sample f occur before f, less than
\* the length of the structure before it
Shadowed(bytes, f) ==
    \E p \in Occurrences(bytes, NORTEK_COMMON_SAMPLE_STRUCTS[StructOf(f)].sync) :
       p < f[1] /\ f[1] < p + (f[2] - f[1])

OfStructure(r) ==
    \E i \in DOMAIN NORTEK_COMMON_SAMPLE_STRUCTS :
       NORTEK_COMMON_SAMPLE_STRUCTS[i].len = r[2] - r[1]

\* C22 (as claimed, its weaker half): the sieve invoked again, no byte
\* appended and no response registered in between, returns no range the
\* invocation before it did not return.
C22_NoNewRange ==
    chunker.sieved = 2 =>
       \A i \in DOMAIN chunker.return_list :
          \E j \in DOMAIN chunker.previous :
             chunker.previous[j] = chunker.return_list[i]

\* C22 (what holds): the sieve invoked again, no byte appended and no
\* response registered in between, returns the ranges of the structures
\* with sync bytes it returned before, in the same order.
C22_StructureRangesRepeat ==
    chunker.sieved = 2 =>
       SelectSeq(chunker.return_list, OfStructure)
       = SelectSeq(chunker.previous, OfStructure)

\* the sieve was invoked twice over the same bytes, the first invocation
\* with a response registered and found, and returned the range of the
\* sample both times
C22_Witness ==
    /\ chunker.sieved = 2
    /\ Len(SelectSeq(chunker.return_list, OfStructure)) >= 1
    /\ Len(chunker.previous) > Len(chunker.return_list)

\* the sieve was invoked over all the bytes of the stream
SievedWhole ==
    /\ chunker.sieved >= 1
    /\ chunker.arrived = Len(Stream.bytes)

\* C23 (as claimed): whatever bytes that are no sample the stream holds
\* before, between and after its samples, the sieve over the stream
\* returns the range of every sample, and raises nothing.
C23_NoiseTolerance ==
    SievedWhole =>
       /\ chunker.op = "chunker_sieve_function" => chunker.raises = "ok"
       /\ \A f \in Stream.samples : Count(chunker.return_list, f) = 1

\* C23 (what holds): the sieve over the stream returns the range of every
\* sample that is not preceded by the sync bytes of its structure within
\* its length, returns no range of a structure that is not a sample or a
\* part of one, and raises nothing.
C23_ToleratesNoiseWithoutSync ==
    SievedWhole =>
       /\ chunker.op = "chunker_sieve_function" => chunker.raises = "ok"
       /\ \A f \in Stream.samples :
             ~Shadowed(Stream.bytes, f) => Count(chunker.return_list, f) = 1
       /\ \A i \in DOMAIN chunker.return_list :
             OfStructure(chunker.return_list[i]) =>
                \E f \in Stream.samples :
                   /\ f[1] <= chunker.return_list[i][1]
                   /\ chunker.return_list[i][2] <= f[2]

\* the sieve returned the ranges of two samples with bytes before,
\* between and after them, the first two of the sync bytes among them
C23_Witness ==
    /\ SievedWhole
    /\ \E f \in Stream.samples, g \in Stream.samples :
          /\ 0 < f[1]
          /\ f[2] < g[1]
          /\ g[2] < Len(Stream.bytes)
          /\ Stream.bytes[g[1]] = HW_CONFIG_SYNC_BYTES[2]
          /\ Count(chunker.return_list, f) = 1
          /\ Count(chunker.return_list, g) = 1
          /\ Len(chunker.return_list) = 2

\* the ranges share no byte
Disjoint(r, q) == r[2] <= q[1] \/ q[2] <= r[1]

\* C24 (as claimed): no two ranges one invocation of the sieve returns
\* share a byte, whatever they are the ranges of.
C24_NoOverlap ==
    chunker.sieved >= 1 =>
       \A i \in DOMAIN chunker.return_list :
          \A j \in DOMAIN chunker.return_list :
             i # j => Disjoint(chunker.return_list[i], chunker.return_list[j])

\* C24 (what holds): no two ranges of one structure with sync bytes that
\* one invocation of the sieve returns share a byte.
C24_NoOverlapWithinStructure ==
    chunker.sieved >= 1 =>
       \A i \in DOMAIN chunker.return_list :
          \A j \in DOMAIN chunker.return_list :
             (/\ i # j
              /\ OfStructure(chunker.return_list[i])
              /\ chunker.return_list[i][2] - chunker.return_list[i][1]
                 = chunker.return_list[j][2] - chunker.return_list[j][1])
             => Disjoint(chunker.return_list[i], chunker.return_list[j])

\* the sieve returned the ranges of two hardware configurations, the
\* second starting where the first ends
C24_Witness ==
    /\ chunker.sieved >= 1
    /\ \E i \in DOMAIN chunker.return_list :
          \E j \in DOMAIN chunker.return_list :
             /\ chunker.return_list[i][2] = chunker.return_list[j][1]
             /\ chunker.return_list[i][2] - chunker.return_list[i][1]
                = HW_CONFIG_LEN
             /\ chunker.return_list[j][2] - chunker.return_list[j][1]
                = HW_CONFIG_LEN

\* The particles of the hardware configurations handed to the consumer
\* after the last invocation of the sieve: one for each range of the
\* length of a hardware configuration it returned, built from the bytes of
\* the range, with the quality flag _build_parsed_values gives it.
HwParticles ==
    {[range |-> chunker.return_list[i],
      quality_flag |->
          hw_quality_flag(Slice(RawData(chunker), chunker.return_list[i][1],
                                chunker.return_list[i][2]))] :
        i \in {k \in DOMAIN chunker.return_list :
                  chunker.return_list[k][2] - chunker.return_list[k][1]
                  = HW_CONFIG_LEN}}

\* C25 (as claimed): a hardware configuration that has arrived with a
\* checksum that is not the one of its bytes is handed to the consumer as
\* a particle flagged CHECKSUM_FAILED.
C25_FailedSampleDeliveredFlagged ==
    chunker.sieved >= 1 =>
       \A f \in Stream.failed :
          f[2] <= chunker.arrived =>
             \E p \in HwParticles :
                p.range = f /\ p.quality_flag = "CHECKSUM_FAILED"

\* C25 (what holds): the sieve returns no range for a hardware
\* configuration with a checksum that is not the one of its bytes, and no
\* particle built from a range the sieve returned is flagged.
C25_FailedSampleDropped ==
    chunker.sieved >= 1 =>
       /\ \A f \in Stream.failed : Count(chunker.return_list, f) = 0
       /\ \A p \in HwParticles : p.quality_flag = "ok"

\* a hardware configuration with another checksum and a sample after it
\* have arrived: the sieve returned the range of the sample only
C25_Witness ==
    /\ chunker.sieved >= 1
    /\ \E f \in Stream.failed :
          /\ f[2] <= chunker.arrived
          /\ hw_quality_flag(Slice(RawData(chunker), f[1], f[2]))
             = "CHECKSUM_FAILED"
          /\ HwParticles = {[range |-> <<f[2], f[2] + HW_CONFIG_LEN>>,
                             quality_flag |-> "ok"]}

\* the first offset of the stream at which the sync bytes of the structure
\* of sample f occur
FirstSync(f) ==
    find(Stream.bytes, NORTEK_COMMON_SAMPLE_STRUCTS[StructOf(f)].sync, 0)

\* C29 (as claimed): a sample that starts less than the length of its
\* structure after an occurrence of its sync bytes that is no sample is
\* returned by the sieve over the stream.
C29_ResumesOneByteAfterFalseSync ==
    SievedWhole =>
       \A f \in Stream.samples :
          Shadowed(Stream.bytes, f) => Count(chunker.return_list, f) = 1

\* C29 (what holds): after the first occurrence of the sync bytes of a
\* structure the scan resumes the length of the structure later: a sample
\* that starts before that offset is not returned, a sample that starts at
\* that offset or later and is not preceded by its sync bytes within its
\* length is.
C29_ResumesStructureLengthAfterSync ==
    SievedWhole =>
       \A f \in Stream.samples :
          /\ (FirstSync(f) < f[1] /\ f[1] < FirstSync(f) + (f[2] - f[1]))
                => Count(chunker.return_list, f) = 0
          /\ (FirstSync(f) + (f[2] - f[1]) <= f[1]
              /\ ~Shadowed(Stream.bytes, f))
                => Count(chunker.return_list, f) = 1

\* the sync bytes of a hardware configuration, which are no sample, were
\* followed more than the length of the structure later by a sample: the
\* sieve returned the range of the sample
C29_Witness ==
    /\ SievedWhole
    /\ \E f \in Stream.samples :
          /\ FirstSync(f) = 0
          /\ FirstSync(f) + HW_CONFIG_LEN < f[1]
          /\ f[2] - f[1] = HW_CONFIG_LEN
          /\ Stream.samples = {f}
          /\ chunker.return_list = <<f>>

\* C30 (as claimed): the ranges one invocation of the sieve returns are in
\* the order of their start offsets.
C30_AscendingStart ==
    chunker.sieved >= 1 =>
       \A i \in DOMAIN chunker.return_list :
          \A j \in DOMAIN chunker.return_list :
             i < j => chunker.return_list[i][1] <= chunker.return_list[j][1]

\* the place of a range in the order of the sieve: the structures in the
\* order of NORTEK_COMMON_SAMPLE_STRUCTS, then the registered responses
Rank(r) ==
    IF OfStructure(r) THEN StructOf(r)
    ELSE Len(NORTEK_COMMON_SAMPLE_STRUCTS) + 1

\* C30 (what holds): the ranges one invocation of the sieve returns are in
\* the order of the structures, user, hardware, head configuration, then
\* the registered responses; the ranges of one structure are in the order
\* of their start offsets.
C30_StructureOrder ==
    chunker.sieved >= 1 =>
       \A i \in DOMAIN chunker.return_list :
          \A j \in DOMAIN chunker.return_list :
             i < j =>
                /\ Rank(chunker.return_list[i]) <= Rank(chunker.return_list[j])
                /\ (OfStructure(chunker.return_list[i])
                    /\ Rank(chunker.return_list[i])
                       = Rank(chunker.return_list[j]))
                   => chunker.return_list[i][1] < chunker.return_list[j][1]

\* a hardware, a user and a head configuration arrived in this order: the
\* sieve returned the range of the user configuration first
C30_Witness ==
    /\ SievedWhole
    /\ chunker.return_list
       = <<<<HW_CONFIG_LEN, HW_CONFIG_LEN + USER_CONFIG_LEN>>,
           <<0, HW_CONFIG_LEN>>,
           <<HW_CONFIG_LEN + USER_CONFIG_LEN,
             HW_CONFIG_LEN + USER_CONFIG_LEN + HEAD_CONFIG_LEN>>>>

----------------------------------------------------------------------------
(* Properties of the protocol, continued.                                  *)

\* C26: Get given DriverParameter.ALL returns the value of every registered
\* parameter whose name does not end with Spare and of no other; given a
\* list of registered names it returns the value of each; given a list with
\* a name that is not registered it raises InstrumentParameterException;
\* in every case the protocol state, the registry and the jobs are as
\* before and nothing is written to the transport.
C26_GetReadsOnly ==
    handler = "_handler_get" =>
       /\ state = pre.state
       /\ get_config(param_dict) = pre.config
       /\ armed = pre.armed
       /\ wire = <<>>
       /\ result.params.form \in {"ALL", "[ALL]"} =>
             /\ outcome = "ok"
             /\ DOMAIN result.value
                = {name \in ParamNames : ~endswith_Spare(name)}
             /\ \A name \in DOMAIN result.value :
                   result.value[name] = param_dict[name]
       /\ result.params.form = "list" =>
             IF \A i \in DOMAIN result.params.keys :
                   result.params.keys[i] \in ParamNames
             THEN /\ outcome = "ok"
                  /\ DOMAIN result.value
                     = {result.params.keys[i] :
                           i \in DOMAIN result.params.keys}
                  /\ \A name \in DOMAIN result.value :
                        result.value[name] = param_dict[name]
             ELSE outcome = "InstrumentParameterException"

\* Get given DriverParameter.ALL after a Set changed the registry: the
\* snapshot holds the value set
C26_Witness ==
    /\ handler = "_handler_get"
    /\ result.params.form = "ALL"
    /\ outcome = "ok"
    /\ param_dict # InitParamDict
    /\ \E name \in DOMAIN result.value :
          result.value[name] # InitParamDict[name]

\* Get given a registered name followed by one that is not registered
C26_WitnessUnknown ==
    /\ handler = "_handler_get"
    /\ result.params.form = "list"
    /\ Len(result.params.keys) = 2
    /\ result.params.keys[2] \notin ParamNames
    /\ outcome = "InstrumentParameterException"

\* the reads of a configuration: of the user, the hardware and the head
\* configuration
ConfigReads == {"GC", "GP", "GH"}

\* the last exchange of the last event
LastExchange == wire[Len(wire)]

\* C27 (as claimed): an event that ends with the read of a configuration
\* raises InstrumentProtocolException when the response to the read arrived
\* and did not pass its check, InstrumentTimeoutException when no response
\* arrived.
C27_DistinctOutcomes ==
    (Len(wire) > 0 /\ LastExchange.cmd \in ConfigReads
     /\ outcome \notin {"ok", "SampleException"}) =>
       /\ LastExchange.reply = "invalid"
             => outcome = "InstrumentProtocolException"
       /\ LastExchange.reply \in {"none", "timeout"}
             => outcome = "InstrumentTimeoutException"

\* C27 (what holds): the read of the hardware configuration raises
\* InstrumentProtocolException when the response did not pass its check
\* and InstrumentTimeoutException when none arrived; the read of the user
\* configuration by _update_params raises InstrumentTimeoutException in
\* both cases, and never InstrumentProtocolException.
C27_HardwareReadDistinct ==
    (Len(wire) > 0 /\ outcome \notin {"ok", "SampleException"}) =>
       /\ (LastExchange.cmd = "GP" /\ LastExchange.reply = "invalid")
             => outcome = "InstrumentProtocolException"
       /\ (LastExchange.cmd = "GP" /\ LastExchange.reply = "timeout")
             => outcome = "InstrumentTimeoutException"
       /\ (LastExchange.cmd = "GC"
           /\ LastExchange.reply \in {"none", "invalid"})
             => outcome = "InstrumentTimeoutException"

\* the status acquisition got a hardware configuration that did not pass
\* its check
C27_Witness ==
    /\ handler = "_handler_acquire_status"
    /\ Len(wire) > 0
    /\ LastExchange.cmd = "GP"
    /\ LastExchange.reply = "invalid"
    /\ outcome = "InstrumentProtocolException"

\* the jobs whose interval in the registry is not 00:00:00, each with the
\* event it delivers
ConfiguredJobs ==
    {j \in {ClockSyncJob, AcquireStatusJob} :
        \/ j = ClockSyncJob
           /\ param_dict["ClockSyncInterval"] # StrV("00:00:00")
        \/ j = AcquireStatusJob
           /\ param_dict["AcquireStatusInterval"] # StrV("00:00:00")}

OfResponse(r) == ~OfStructure(r)

\* the number of entries of NORTEK_COMMON_DYNAMIC_SAMPLE_STRUCTS with the
\* bytes p
Pending(dynamic_structs, p) ==
    Cardinality({i \in DOMAIN dynamic_structs : dynamic_structs[i].sync = p})

\* the number of ranges of the list that are ranges of a response and hold
\* the bytes p in raw_data
Produced(raw_data, list, p) ==
    Cardinality({i \in DOMAIN list :
                    /\ OfResponse(list[i])
                    /\ Slice(raw_data, list[i][1], list[i][2]) = p})

\* C31: every invocation of the sieve returns, for each response
\* registered, as many ranges as it removes registrations of that
\* response, and no other range of a response: a registration gives a
\* range only in the invocation that removes it, so at most one over all
\* invocations.  A registration that gave no range is still in the list
\* after the invocation, and nothing but the sieve removes one.
C31_ConsumedOnce ==
    [][/\ chunker'.op = "chunker_sieve_function" =>
             /\ Len(SelectSeq(chunker'.return_list, OfResponse))
                = Len(chunker.dynamic_structs)
                  - Len(chunker'.dynamic_structs)
             /\ \A k \in DOMAIN chunker.dynamic_structs :
                   Produced(RawData(chunker), chunker'.return_list,
                            chunker.dynamic_structs[k].sync)
                   = Pending(chunker.dynamic_structs,
                             chunker.dynamic_structs[k].sync)
                     - Pending(chunker'.dynamic_structs,
                               chunker.dynamic_structs[k].sync)
             /\ \A k \in DOMAIN chunker'.dynamic_structs :
                   Pending(chunker'.dynamic_structs,
                           chunker'.dynamic_structs[k].sync)
                   <= Pending(chunker.dynamic_structs,
                              chunker'.dynamic_structs[k].sync)
       /\ chunker'.op # "chunker_sieve_function" =>
             /\ Len(chunker'.dynamic_structs) >= Len(chunker.dynamic_structs)
             /\ SubSeq(chunker'.dynamic_structs, 1,
                       Len(chunker.dynamic_structs))
                = chunker.dynamic_structs]_vars

\* a response was registered and found: the invocation that found it
\* returned its range and removed the registration, the invocation after
\* it over the same bytes returned no range of a response
C31_Witness ==
    /\ chunker.sieved = 2
    /\ chunker.dynamic_structs = <<>>
    /\ \E j \in DOMAIN chunker.previous :
          /\ chunker.previous[j] \in Stream.responses
          /\ OfResponse(chunker.previous[j])
    /\ SelectSeq(chunker.return_list, OfResponse) = <<>>
    /\ SelectSeq(chunker.return_list, OfStructure) # <<>>

\* two registrations of the same response are pending and one invocation
\* gave the range of one of them: the other is still pending
C31_WitnessTwice ==
    /\ chunker.sieved = 1
    /\ Len(chunker.dynamic_structs) = 1
    /\ Len(SelectSeq(chunker.return_list, OfResponse)) = 1
    /\ Produced(RawData(chunker), chunker.return_list,
                chunker.dynamic_structs[1].sync) = 1

----------------------------------------------------------------------------
(* Properties of the what-mode probe.  They are stated on the replies the  *)
(* instrument gave to the probes of the last call of _get_mode and on what *)
(* the call returned.                                                      *)

\* the prompt buffer after k rounds: the bytes of the replies to the first
\* k probes (nothing arrives once the replies are used up)
RECURSIVE BufferAfter(_, _)
BufferAfter(replies, k) ==
    IF k = 0 THEN <<>>
    ELSE BufferAfter(replies, k - 1)
         \o (IF k <= Len(replies) THEN replies[k].bytes ELSE <<>>)

\* the time elapsed after k rounds
RECURSIVE ElapsedAfter(_, _)
ElapsedAfter(replies, k) ==
    IF k = 0 THEN 0
    ELSE ElapsedAfter(replies, k - 1)
         + (IF k <= Len(replies) THEN replies[k].took ELSE 1)

\* a prompt of the list other than the NACK is in the buffer
KnownPromptIn(buf) ==
    \E n \in DOMAIN PromptList :
       PromptList[n] # Z_NACK /\ In(PromptList[n], buf)

\* the probes the call sent, and the delays it slept
ProbesSent ==
    Cardinality({n \in DOMAIN whatmode.got.wire :
                    whatmode.got.wire[n].cmd = "II"})
DelaysSlept ==
    Cardinality({n \in DOMAIN whatmode.got.wire :
                    whatmode.got.wire[n].cmd = "sleep"})

\* C32: a call of _get_mode sends the probe, sleeps the delay and looks at
\* the accumulated buffer, and sends the probe again exactly as long as no
\* prompt other than the NACK is in the buffer and the timeout has not
\* elapsed.  It returns a prompt of the list that is in the buffer and is
\* not the NACK, or raises the timeout: with the NACK as the only prompt in
\* the buffer it returns nothing and raises the timeout.
C32_ProbeUntilPromptOrTimeout ==
    whatmode.got.raises # "none" =>
       /\ ProbesSent >= 1
       /\ DelaysSlept = ProbesSent
       /\ \A k \in 1..(ProbesSent - 1) :
             /\ ~KnownPromptIn(BufferAfter(whatmode.replies, k))
             /\ ElapsedAfter(whatmode.replies, k) <= probe_timeout
       /\ \/ KnownPromptIn(BufferAfter(whatmode.replies, ProbesSent))
          \/ ElapsedAfter(whatmode.replies, ProbesSent) > probe_timeout
       /\ whatmode.got.promptbuf = BufferAfter(whatmode.replies, ProbesSent)
       /\ whatmode.got.raises \in {"ok", "InstrumentTimeoutException"}
       /\ whatmode.got.raises = "ok"
          <=> KnownPromptIn(whatmode.got.promptbuf)
       /\ whatmode.got.raises = "ok" =>
             /\ whatmode.got.prompt # Z_NACK
             /\ \E n \in DOMAIN PromptList :
                   whatmode.got.prompt = PromptList[n]
             /\ In(whatmode.got.prompt, whatmode.got.promptbuf)
       /\ whatmode.got.raises = "InstrumentTimeoutException" =>
             /\ whatmode.got.prompt = <<>>
             /\ ElapsedAfter(whatmode.replies, ProbesSent) > probe_timeout
       /\ (In(Z_NACK, whatmode.got.promptbuf)
           /\ ~KnownPromptIn(whatmode.got.promptbuf))
             => whatmode.got.raises = "InstrumentTimeoutException"

\* the NACK arrived after the first probe and a prompt after the second:
\* the call sent two probes and returned the prompt, not the NACK
C32_Witness ==
    /\ whatmode.got.raises = "ok"
    /\ ProbesSent = 2
    /\ In(Z_NACK, BufferAfter(whatmode.replies, 1))
    /\ In(Z_NACK, whatmode.got.promptbuf)
    /\ whatmode.got.prompt \in {COMMAND_MODE, CONFIRMATION, Z_ACK}

\* the NACK was the only prompt that arrived up to the timeout
C32_WitnessNackOnly ==
    /\ whatmode.got.raises = "InstrumentTimeoutException"
    /\ ProbesSent = MaxProbes
    /\ In(Z_NACK, whatmode.got.promptbuf)

\* the two halves of a prompt arrived after two probes
C32_WitnessSplit ==
    /\ whatmode.got.raises = "ok"
    /\ ProbesSent = 2
    /\ whatmode.replies[1].bytes = SubSeq(CONFIRMATION, 1, 4)
    /\ whatmode.got.prompt = CONFIRMATION

----------------------------------------------------------------------------
(* Properties of the conversions.  They are stated on the last call of the *)
(* codec: the conversion, the buffer it was given, what it returned and    *)
(* what it raised.                                                         *)

\* the last call of the codec was a conversion
Converting == codec.op \in Conversions

\* the length of the buffer each conversion is written for: a word, a
\* double word, the six bytes of a time stamp; the bit fields of the
\* configurations are words, the deployment name is six bytes
ExpectedLen(conversion) ==
    CASE conversion = "convert_word_to_int" -> 2
      [] conversion = "convert_double_word_to_int" -> 4
      [] conversion = "convert_words_to_datetime" -> 6
      [] conversion = "convert_datetime_to_words" -> 6
      [] conversion = "convert_bytes_to_bit_field" -> 2
      [] conversion = "convert_bytes_to_string" -> 6

\* the conversions that check the length of their buffer
LengthChecked ==
    {"convert_word_to_int", "convert_double_word_to_int",
     "convert_words_to_datetime", "convert_datetime_to_words"}

\* C33 (as claimed): every conversion given a buffer of another length
\* than the one it is written for raises SampleException, the bit-field
\* and the string conversion included.
C33_WrongLengthRaises ==
    (Converting /\ Len(codec.input) # ExpectedLen(codec.op))
    => codec.raises = "SampleException"

\* C33 (what holds): the conversions of a word, of a double word and of a
\* time stamp raise SampleException exactly when the buffer has another
\* length, and leave the registry as it was; the bit-field and the string
\* conversion take a buffer of any length and raise nothing: the bit field
\* has eight bits per byte given, the string is no longer than the buffer.
C33_CheckedConversionsRaise ==
    Converting =>
       /\ codec.pd = codec.before
       /\ codec.op \in LengthChecked =>
             (codec.raises = "SampleException"
              <=> Len(codec.input) # ExpectedLen(codec.op))
       /\ codec.op = "convert_bytes_to_bit_field" =>
             /\ codec.raises = "ok"
             /\ Len(codec.output) = 8 * Len(codec.input)
       /\ codec.op = "convert_bytes_to_string" =>
             /\ codec.raises = "ok"
             /\ Len(codec.output) <= Len(codec.input)

\* the bit-field conversion was given three bytes and returned 24 bits
C33_Witness ==
    /\ codec.op = "convert_bytes_to_bit_field"
    /\ Len(codec.input) = 3
    /\ codec.raises = "ok"
    /\ Len(codec.output) = 24

\* a conversion of a word was given three bytes and raised
C33_WitnessRaised ==
    /\ codec.op = "convert_word_to_int"
    /\ Len(codec.input) = 3
    /\ codec.raises = "SampleException"

\* the byte is packed BCD
Bcd(byte) == (byte \div 16) <= 9 /\ (byte % 16) <= 9

\* C34: convert_words_to_datetime of six bytes of packed BCD returns six
\* numbers, each with the high hex digit of its byte as its tens and the
\* low hex digit as its units (0x15 gives 15), and
\* convert_datetime_to_words of these numbers returns the six bytes.
C34_TimestampRoundTrip ==
    (/\ codec.op = "convert_words_to_datetime"
     /\ Len(codec.input) = 6
     /\ \A j \in 1..6 : Bcd(codec.input[j]))
    => /\ codec.raises = "ok"
       /\ Len(codec.output) = 6
       /\ \A j \in 1..6 :
             /\ codec.output[j] \div 10 = codec.input[j] \div 16
             /\ codec.output[j] % 10 = codec.input[j] % 16
             /\ codec.input[j] = 21 => codec.output[j] = 15
       /\ Converted("convert_datetime_to_words", codec.output)
          = Returned(codec.input)

\* a time stamp with the bytes 0x15, 0x99, 0x05 and 0x00 was decoded
C34_Witness ==
    /\ codec.op = "convert_words_to_datetime"
    /\ codec.raises = "ok"
    /\ \E j \in 1..6 : codec.input[j] = 21 /\ codec.output[j] = 15
    /\ \E j \in 1..6 : codec.input[j] = 153 /\ codec.output[j] = 99
    /\ \E j \in 1..6 : codec.input[j] = 5 /\ codec.output[j] = 5
    /\ \E j \in 1..6 : codec.input[j] = 0

----------------------------------------------------------------------------
(* Properties of the protocol: the scheduled jobs and the state machine.   *)

\* C36 (as claimed): in AUTOSAMPLE every job registered with the scheduler
\* delivers an event the state has a handler for, and an event the
\* scheduler delivered in AUTOSAMPLE was dispatched to a handler.
C36_ArmedEventsHandled ==
    /\ state = "AUTOSAMPLE" =>
          \A j \in armed : j.event \in Handled("AUTOSAMPLE")
    /\ (source = "scheduler" /\ pre.state = "AUTOSAMPLE")
          => handler # "none"

\* C36 (what holds): the jobs _handler_autosample_enter registers deliver
\* CLOCK_SYNC and ACQUIRE_STATUS, AUTOSAMPLE has handlers for
\* SCHEDULED_CLOCK_SYNC and SCHEDULED_ACQUIRE_STATUS only: an event a job
\* delivered in AUTOSAMPLE found no handler, on_event raised
\* InstrumentStateException, nothing was written and the state and the
\* jobs stayed.
C36_FiredJobFindsNoHandler ==
    /\ \A j \in armed :
          /\ j \in {ClockSyncJob, AcquireStatusJob}
          /\ j.event \in {"CLOCK_SYNC", "ACQUIRE_STATUS"}
          /\ j.event \notin Handled("AUTOSAMPLE")
    /\ {"SCHEDULED_CLOCK_SYNC", "SCHEDULED_ACQUIRE_STATUS"}
          \subseteq Handled("AUTOSAMPLE")
    /\ (source = "scheduler" /\ pre.state = "AUTOSAMPLE") =>
          /\ handler = "none"
          /\ outcome = "InstrumentStateException"
          /\ wire = <<>>
          /\ state = "AUTOSAMPLE"
          /\ armed = pre.armed

\* a job fired in AUTOSAMPLE, the state that registered it
C36_Witness ==
    /\ source = "scheduler"
    /\ pre.state = "AUTOSAMPLE"
    /\ pre.armed # {}
    /\ handler = "none"
    /\ outcome = "InstrumentStateException"
    /\ state = "AUTOSAMPLE"

\* C35: the state machine starts in UNKNOWN and is always in one of the
\* four states of ProtocolState.  UNKNOWN has a handler for DISCOVER only,
\* DIRECT_ACCESS for STOP_DIRECT and EXECUTE_DIRECT only, and an event
\* dispatched in one of them ran the handler of such an event.
\* DIRECT_ACCESS is entered from COMMAND only, by the handler of
\* START_DIRECT.  An event the state had no handler for left the state as
\* it was.
C35_StateMachine ==
    /\ state = "UNKNOWN"
    /\ [](/\ state \in ProtocolState
          /\ Handled("UNKNOWN") = {"DISCOVER"}
          /\ Handled("DIRECT_ACCESS") = {"STOP_DIRECT", "EXECUTE_DIRECT"}
          /\ (pre.state = "UNKNOWN" /\ handler # "none")
                => handler = "_handler_unknown_discover"
          /\ (pre.state = "DIRECT_ACCESS" /\ handler # "none")
                => handler \in {"_handler_direct_access_stop_direct",
                                "_handler_direct_access_execute_direct"}
          /\ (state = "DIRECT_ACCESS" /\ pre.state # "DIRECT_ACCESS")
                => /\ pre.state = "COMMAND"
                   /\ handler = "_handler_command_start_direct"
          /\ handler = "none"
                => /\ state = pre.state
                   /\ (source = "caller" /\ pre.state # "UNKNOWN")
                         => outcome = "InstrumentStateException")

\* an event without a handler was delivered in DIRECT_ACCESS, entered
\* from COMMAND before
C35_Witness ==
    /\ pre.state = "DIRECT_ACCESS"
    /\ state = "DIRECT_ACCESS"
    /\ handler = "none"
    /\ outcome = "InstrumentStateException"

\* an event without a handler was delivered in UNKNOWN
C35_WitnessUnknown ==
    /\ pre.state = "UNKNOWN"
    /\ state = "UNKNOWN"
    /\ handler = "none"
    /\ outcome = "InstrumentStateException"

----------------------------------------------------------------------------
(* Properties of the decoders of the configurations and of their           *)
(* particles, stated on the last call.                                     *)

\* the decoder, or the particle, of the last call
Decoding ==
    {p \in ConfigParticles : codec.op = p.decoder}
Building ==
    {p \in ConfigParticles : codec.op = p.particle}

\* the deployment clock of a user configuration is BCD
ClockIsBcd(input_stream) ==
    \A j \in 49..54 : Bcd(input_stream[j])

\* C37 (as claimed): a buffer of exactly the length of the configuration
\* is accepted by the decoder, whatever its last word.
C37_ExactLengthAccepted ==
    \A p \in Decoding :
       (/\ Len(codec.input) = p.len
        /\ p.decoder = "user_config_to_dict" => ClockIsBcd(codec.input))
       => codec.raises = "ok"

\* C37 (what holds): a buffer of exactly the length of the configuration
\* is accepted unless its last word is 0x06 0x06, and then it raises
\* SampleException; a buffer of that length and the ack after it is
\* accepted whatever its checksum; (a user configuration: provided its
\* deployment clock is BCD, else ValueError).
C37_AcceptedUnlessChecksumIsAck ==
    \A p \in Decoding :
       /\ Len(codec.input) = p.len =>
             /\ LastTwo(codec.input) = Z_ACK
                   => codec.raises = "SampleException"
             /\ LastTwo(codec.input) # Z_ACK
                   => codec.raises
                      = (IF p.decoder = "user_config_to_dict"
                            /\ ~ClockIsBcd(codec.input)
                         THEN "ValueError" ELSE "ok")
       /\ (Len(codec.input) = p.len + 2 /\ LastTwo(codec.input) = Z_ACK)
             => codec.raises = "ok"
       /\ Len(codec.input) \notin {p.len, p.len + 2}
             => codec.raises = "SampleException"

\* a hardware configuration of 48 bytes whose checksum is right and is
\* 0x0606 was refused
C37_Witness ==
    /\ codec.op = "hw_config_to_dict"
    /\ Len(codec.input) = HW_CONFIG_LEN
    /\ calculate_checksum(codec.input, HW_CONFIG_LEN) = 1542
    /\ LastTwo(codec.input) = Z_ACK
    /\ codec.raises = "SampleException"

\* the word at the end of the configuration is the checksum of the words
\* before it
TrailerIsChecksum(raw_data, config_len) ==
    convert_word_to_int(Slice(raw_data, config_len - 2, config_len))
    = calculate_checksum(raw_data, config_len)

\* C38 (as claimed): a particle that was built, from the configuration
\* alone or with the ack after it, is flagged exactly when the word at the
\* end of the configuration is not the checksum of the words before it.
C38_FlaggedIffChecksumDiffers ==
    \A p \in Building :
       codec.raises = "ok" =>
          (codec.output = "CHECKSUM_FAILED"
           <=> ~TrailerIsChecksum(codec.input, p.len))

\* C38 (what holds): a particle built from the configuration alone is
\* flagged exactly when the word at its end is not the checksum of the
\* words before it; a particle built from the configuration and the ack
\* is flagged exactly when the checksum of the words before the last is
\* not 0, whatever the last word.
C38_FlagOfBareFrame ==
    \A p \in Building :
       codec.raises = "ok" =>
          /\ Len(codec.input) = p.len =>
                (codec.output = "CHECKSUM_FAILED"
                 <=> ~TrailerIsChecksum(codec.input, p.len))
          /\ Len(codec.input) = p.len + 2 =>
                (codec.output = "CHECKSUM_FAILED"
                 <=> calculate_checksum(codec.input, p.len) # 0)

\* a particle was built from a configuration with the right checksum and
\* the ack after it, and was flagged
C38_Witness ==
    \E p \in Building :
       /\ codec.raises = "ok"
       /\ Len(codec.input) = p.len + 2
       /\ TrailerIsChecksum(codec.input, p.len)
       /\ codec.output = "CHECKSUM_FAILED"

\* a particle was built from a configuration alone with the right
\* checksum, and was not flagged
C38_WitnessBare ==
    \E p \in Building :
       /\ codec.raises = "ok"
       /\ Len(codec.input) = p.len
       /\ TrailerIsChecksum(codec.input, p.len)
       /\ codec.output = "ok"

\* how many bytes the string the registry holds for name is longer than
\* the width of its field
Excess(name, width) ==
    IF Len(codec.pd[name].b) > width THEN Len(codec.pd[name].b) - width
    ELSE 0

\* _create_set_output was called with a registry none of whose fields
\* raises
BuildingBlock ==
    /\ codec.op = "_create_set_output"
    /\ FirstRaising(codec.pd) = 0

C39_WitnessPadded ==
    /\ Built
    /\ Len(codec.pd["Comments"].b) = 1
    /\ Len(codec.pd["DeploymentName"].b) = 6
    /\ Len(codec.output) = USER_CONFIG_LEN

\* a comment one byte longer than its field: no block, SampleException
C39_WitnessOdd ==
    /\ BuildingBlock
    /\ Excess("Comments", 180) = 1
    /\ Excess("DeploymentName", 6) = 0
    /\ codec.raises = "SampleException"

AutosampleClockSyncHandled == handler = "_handler_autosample_clock_sync"

\* the commands _handler_autosample_clock_sync sends when every exchange is
\* answered
AutosampleClockSyncCmds ==
    <<"@@@@@@", "sleep", "K1W%!Q", "MC", "SC", "@@@@@@", "sleep", "K1W%!Q">>

\* C40: a scheduled clock sync handled in Autosample with the instrument
\* measuring returns with the protocol in Autosample and the instrument
\* measuring again, and the error of a step that fails reaches the caller.
C40_ClockSyncRestoresMeasurement ==
    (AutosampleClockSyncHandled /\ pre.instr = "measurement") =>
       /\ state = "AUTOSAMPLE"
       /\ outcome = "ok" => instr = "measurement"
       /\ (\E n \in DOMAIN wire : wire[n].reply = "timeout")
             => outcome = "InstrumentTimeoutException"

\* C40, what the code does: the handler sends the soft break, the
\* confirmation, the set-clock command and the soft break again, in that
\* order, and the protocol state stays Autosample; an exchange that is not
\* answered ends the handler there and its timeout reaches the caller.  The
\* start command is never sent: once the confirmation is acknowledged the
\* instrument is in command mode and it is still in command mode when the
\* handler returns.
C40_ClockSyncLeavesCommandMode ==
    AutosampleClockSyncHandled =>
       /\ pre.state = "AUTOSAMPLE"
       /\ state = "AUTOSAMPLE"
       /\ IsPrefix(Cmds(wire), AutosampleClockSyncCmds)
       /\ outcome \in {"ok", "InstrumentTimeoutException"}
       /\ (outcome = "ok")
             = (/\ Cmds(wire) = AutosampleClockSyncCmds
                /\ \A n \in DOMAIN wire : wire[n].reply # "timeout")
       /\ (outcome = "InstrumentTimeoutException")
             = (wire # <<>> /\ wire[Len(wire)].reply = "timeout")
       /\ \A n \in DOMAIN wire : wire[n].cmd # "ST"
       /\ instr = InstrAfter(pre.instr, wire)
       /\ (Len(wire) >= 4 /\ Answered(wire[4])) => instr = "command"

\* a clock sync in Autosample that ran to its end with the instrument
\* measuring before: the clock was set, the instrument is in command mode
C40_Witness ==
    /\ AutosampleClockSyncHandled
    /\ outcome = "ok"
    /\ pre.instr = "measurement"
    /\ wire[5] = Entry("SC", "prompt")
    /\ state = "AUTOSAMPLE"
    /\ instr = "command"

\* the set-clock exchange timed out: the error reached the caller, the
\* second break was not sent
C40_WitnessFailed ==
    /\ AutosampleClockSyncHandled
    /\ pre.instr = "measurement"
    /\ outcome = "InstrumentTimeoutException"
    /\ Len(wire) = 5
    /\ wire[5] = Entry("SC", "timeout")
    /\ instr = "command"

====
